---- MODULE Spec2Model ----
(***************************************************************************)
(* A model of the RGB-D SLAM engine: the per-frame tracking loop of        *)
(* RGBD_SLAM (rgbd_slam.cpp), the RANSAC pose optimisation                 *)
(* (pose_optimization.cpp), inverse-depth point tracking                   *)
(* (inverse_depth_with_tracking.cpp) and the staged / local map point      *)
(* life cycle (map_point.cpp, map_point.hpp, map_point2d.cpp).             *)
(*                                                                         *)
(* Abstractions.  A pose is a record [p, cov]: p stands for position and   *)
(* orientation, cov for the covariance matrix.  A covariance matrix is one *)
(* of the values of Covariances; only "invalid" fails the positive         *)
(* definiteness test.  Scores that the code computes as sums of 1/min_k    *)
(* are kept exact by multiplying them with ScoreOne.                       *)
(***************************************************************************)
EXTENDS Integers, Sequences, FiniteSets, TLC

VARIABLES
    \* ---- RGBD_SLAM members
    isTrackingLost,         \* _isTrackingLost
    failedTrackingCount,    \* _failedTrackingCount
    isFirstTrackingCall,    \* _isFirstTrackingCall
    currentPose,            \* _currentPose
    invPoints,              \* the inverse-depth points owned by _localMap
    exited,                 \* the process called exit(-1)
    \* ---- position inside compute_new_pose and its locals
    pc,                     \* "ready" (between two track calls) or "update"
    frame,                  \* locals set before the isPoseValid branch
    out,                    \* what the last finished call returned and did
    \* ---- history
    startPose,              \* the pose handed to the constructor
    consecutiveFailed,      \* failed frames since the last successful one
    \* ---- one call of Pose_Optimization::compute_optimized_pose
    rpc,                    \* "idle", "loop", "final", "variance" or "done"
    matchedFeatures,        \* the argument: how many matches of each kind
    callerPose,             \* the argument currentPose
    finalPose,              \* the output pose (optimizedPose of the caller)
    featureSets,            \* the output inlier and outlier sets
    iteration,              \* the loop counter of compute_pose_with_ransac
    minScore,               \* its local minScore
    bestPose,               \* its local bestPose
    ransacRet,              \* what compute_pose_with_ransac returned
    optimizedRet,           \* what compute_optimized_pose returned
    \* ---- history of the call
    outBefore,              \* the output pose as the caller passed it
    iterationsRun,          \* iterations of the loop that were started
    finalLm,                \* the final optimisation: "none", "failed" or "ok"
    subsetSelection,        \* the last get_random_subset: bounds, counts, score
    candidateLog,           \* the candidates of the loop so far, in order
    \* ---- one point of the map, staged and then local
    pointKind,              \* "staged", "local" or "removed"
    matchesCount,           \* Staged_Point::_matchesCount
    failTrackingCount,      \* Map_Point::_failTrackingCount
    age,                    \* Map_Point::_age
    \* ---- history of the point
    unmatchedRun,           \* unmatched updates since the last matched one
    removedSum,             \* the removal counts of these updates, added up
    onlyUnitRemovals,       \* all of them had a removal count of 1
    \* ---- the identifiers of the map features
    currentPointId,         \* Point::_currentPointId
    currentPrimitiveId,     \* Primitive::_currentPrimitiveId
    mapFeatures,            \* the features alive: kind, stage and _id
    \* ---- history of the identifiers
    idLog,                  \* the ids handed out by the counters, in order
    \* ---- one inverse-depth point that is tracked on its own
    trackPoint,             \* its _coordinates, _covariance and _descriptor
    trackCall,              \* history: the last call of track and its result
    \* ---- the orientation histogram
    histH,                  \* Histogram::H, the counter of each bin
    histB,                  \* Histogram::B, the bin of each cell
    histLog,                \* history: what was inserted, removed and asked
    \* ---- Primitive_Detection, one call of find_primitives after the other
    detPc,                  \* "idle", "reset", "grow", "merge" or "done"
    scene,                  \* the organized cloud: what each cell looks like
    detHistogram,           \* _histogram: its H and B
    isUnassignedMask,       \* _isUnassignedMask, as the set of the cells at true
    untriedPlanarCellsCount,\* the local of grow_planes_and_cylinders
    gridPlaneSegmentMap,    \* _gridPlaneSegmentMap: the plane id of each cell
    gridCylinderSegMap,     \* _gridCylinderSegMap: the cylinder id of each cell
    planeSegments,          \* _planeSegments.size()
    cylinder2regionMap,     \* cylinder2regionMap.size()
    detOutput,              \* the masks of planeContainer and of the cylinders
    passLog,                \* history: the last pass of the seed loop
    \* ---- one call of Pose_Optimization::compute_pose_variance on its own
    varianceCall,           \* history: its arguments, its runs and its result
    \* ---- the parallel Monte-Carlo runs of compute_pose_variance
    mcStage,                \* "idle", "forked", "joined" or "returned"
    mcIterations,           \* the argument iterations
    taskPc,                 \* where each task of the parallel_for stands
    taskLocal,              \* what a task read of medium before it adds to it
    taskOutcome,            \* history: "none", "ok" or "failed" for each task
    mcMutex,                \* mut: the task that holds it, 0 when free
    mcMedium,               \* medium, the running sum
    mcPoses,                \* poses, the list of the valid poses
    \* ---- RGBD_SLAM::detect_features and its three tasks
    frameStage,             \* "idle", "detecting" or "matching"
    handlerState,           \* each task: "idle", "deferred", "running" or "done"
    handlerPos,             \* how many accesses of its body a task has made
    handlerReads,           \* history: what each task read in this frame
    handlerWrites,          \* history: what each task wrote in this frame
    matchingStartLog,       \* history: the tasks over when find_feature_matches began
    \* ---- region growing from one seed
    growGrid,               \* the plane fitted in each cell of the grid (_planeGrid)
    growSeed,               \* the seed cell of the last growth (seedId)
    growOrder,              \* the order in which that growth visited the four neighbours
    growResult,             \* what the growth activated, and every visit it made
    growStage,              \* "idle" before a growth, "grown" after it
    \* ---- merge_planes on its own
    mergeSegments,          \* the plane of each segment before the merge (_planeSegments)
    mergeConnected,         \* the pairs of segments that touch (isPlanesConnectedMatrix at the start)
    mergeResult,            \* labels, accumulated segments, remaining pairs and tested pairs
    mergeStage,             \* "idle" before merge_planes, "merged" after it
    \* ---- matching one 2D map point
    findCall                \* the last call of find_match or find_matches of a 2D point, and what it gave

engineVars == <<isTrackingLost, failedTrackingCount, isFirstTrackingCall, currentPose,
                invPoints, exited, pc, frame, out, startPose, consecutiveFailed>>

ransacVars == <<rpc, matchedFeatures, callerPose, finalPose, featureSets, iteration, minScore,
                bestPose, ransacRet, optimizedRet, outBefore, iterationsRun, finalLm,
                subsetSelection, candidateLog>>

pointVars == <<pointKind, matchesCount, failTrackingCount, age, unmatchedRun, removedSum,
               onlyUnitRemovals>>

idVars == <<currentPointId, currentPrimitiveId, mapFeatures, idLog>>

trackVars == <<trackPoint, trackCall>>

histVars == <<histH, histB, histLog>>

detVars == <<detPc, scene, detHistogram, isUnassignedMask, untriedPlanarCellsCount,
             gridPlaneSegmentMap, gridCylinderSegMap, planeSegments, cylinder2regionMap,
             detOutput, passLog>>

varianceVars == <<varianceCall>>

mcVars == <<mcStage, mcIterations, taskPc, taskLocal, taskOutcome, mcMutex, mcMedium, mcPoses>>

detectVars == <<frameStage, handlerState, handlerPos, handlerReads, handlerWrites,
          matchingStartLog>>

growVars == <<growGrid, growSeed, growOrder, growResult, growStage>>

mergeVars == <<mergeSegments, mergeConnected, mergeResult, mergeStage>>

matchVars == <<findCall>>

vars == <<engineVars, ransacVars, pointVars, idVars, trackVars, histVars, detVars,
          varianceVars, mcVars, detectVars, growVars, mergeVars, matchVars>>

\* What the steps of one part leave alone.
notEngineVars == <<ransacVars, pointVars, idVars, trackVars, histVars, detVars, varianceVars,
          mcVars, detectVars, growVars, mergeVars, matchVars>>
notRansacVars == <<engineVars, pointVars, idVars, trackVars, histVars, detVars, varianceVars,
          mcVars, detectVars, growVars, mergeVars, matchVars>>
notPointVars == <<engineVars, ransacVars, idVars, trackVars, histVars, detVars, varianceVars,
          mcVars, detectVars, growVars, mergeVars, matchVars>>
notIdVars == <<engineVars, ransacVars, pointVars, trackVars, histVars, detVars, varianceVars,
          mcVars, detectVars, growVars, mergeVars, matchVars>>
notTrackVars == <<engineVars, ransacVars, pointVars, idVars, histVars, detVars, varianceVars,
          mcVars, detectVars, growVars, mergeVars, matchVars>>
notHistVars == <<engineVars, ransacVars, pointVars, idVars, trackVars, detVars, varianceVars,
          mcVars, detectVars, growVars, mergeVars, matchVars>>
notDetVars == <<engineVars, ransacVars, pointVars, idVars, trackVars, histVars, varianceVars,
          mcVars, detectVars, growVars, mergeVars, matchVars>>
notVarianceVars == <<engineVars, ransacVars, pointVars, idVars, trackVars, histVars, detVars,
          mcVars, detectVars, growVars, mergeVars, matchVars>>
notMcVars == <<engineVars, ransacVars, pointVars, idVars, trackVars, histVars, detVars,
          varianceVars, detectVars, growVars, mergeVars, matchVars>>
notDetectVars == <<engineVars, ransacVars, pointVars, idVars, trackVars, histVars, detVars,
          varianceVars, mcVars, growVars, mergeVars, matchVars>>
notGrowVars == <<engineVars, ransacVars, pointVars, idVars, trackVars, histVars, detVars,
          varianceVars, mcVars, detectVars, mergeVars, matchVars>>
notMergeVars == <<engineVars, ransacVars, pointVars, idVars, trackVars, histVars, detVars,
          varianceVars, mcVars, detectVars, growVars, matchVars>>
notMatchVars == <<engineVars, ransacVars, pointVars, idVars, trackVars, histVars, detVars,
          varianceVars, mcVars, detectVars, growVars, mergeVars>>

----------------------------------------------------------------------------
(* Bounds of the model *)

MaxFailedCount == 5        \* frames stop once _failedTrackingCount reaches it
MaxKeypoints == 2          \* most detected keypoints with a descriptor
MaxIterations == 2         \* iterations of the RANSAC loop (maximumIterations)
MaxPlaneMatches == 3       \* most plane matches handed to the optimisation
MaxPointMatches == 2       \* most point matches handed to the optimisation
MaxPointCount == 12        \* the counters of a map point stay within it
MaxFeatureCount == 5       \* features created before the id counters stop
MaxCells == 3              \* cells of the plane grid (_totalCellCount)
MaxRemoveCalls == 3        \* calls of Histogram::remove_point after one init
MaxOtherCells == 3         \* cells of a cloud that differ from its main surface
MaxDrawnCount == 3         \* the largest count that one in-range random draw asks for
MaxVarianceIterations == 6 \* the largest iteration count of a variance call
MaxTasks == 3              \* the largest iteration count of the parallel runs
MaxOddCells == 2           \* cells of a grown grid that differ from its main plane
MaxSegments == 3           \* plane segments handed to merge_planes

(* Program constants *)

minimumPointForOptimization == 5
minimumPlanesForOptimization == 3
poseVarianceIterations == 100
failedTrackingLimit == 3
\* The inlier thresholds maximumRetroprojectionErrorFor...Inliers, in units of the
\* residuals of the model.
pointMaxRetroprojectionError == 2
planeMaxRetroprojectionError == 2
point2dMaxRetroprojectionError == 2
\* minimumInliersProportionForEarlyStop, as a fraction.
earlyStopNumerator == 9
earlyStopDenominator == 10
pointUnmatchedCountToLoose == 10
pointStagedAgeConfidence == 10
\* pointMinimumConfidenceForMap (0.9), as a fraction.
pointMinimumConfidenceNumerator == 9
pointMinimumConfidenceDenominator == 10

(* Abstract values *)

PoseValues == {"p0", "p1"}
Covariances == {"invalid", "covA", "covB"}
Coordinates == {"x0", "x1"}
Descriptors == {"d1", "d2"}
EmptyDescriptor == "empty"
NoPoint == [none |-> TRUE]

is_covariance_valid(c) == c # "invalid"

----------------------------------------------------------------------------
(* Feature scores: pose_optimization.cpp, scorePerFeature.  The code uses  *)
(* 1.0 / minNumberOfFeatureForOpti[k]; here every score is multiplied by   *)
(* ScoreOne, so that a score of 1.0 is ScoreOne.                           *)

ScoreOne == minimumPointForOptimization * minimumPlanesForOptimization
planeFeatureScore == ScoreOne \div minimumPlanesForOptimization
pointFeatureScore == ScoreOne \div minimumPointForOptimization
point2dFeatureScore == ScoreOne \div minimumPointForOptimization

\* compute_pose_with_ransac, initialFeatureScore: SHOULD_NOT_USE_INVERSE_POINTS is
\* not defined, so the 2D points do not count.
initialFeatureScore(m) == pointFeatureScore * m.points + planeFeatureScore * m.planes

\* A variant of the test that only refuses an empty set of matches.
hasNoFeatures(m) == initialFeatureScore(m) <= 0

\* The test of the early return of compute_pose_with_ransac.
hasNotEnoughFeatures(m) == initialFeatureScore(m) < ScoreOne

\* The sum over the three feature kinds of count_k / min_k, times ScoreOne.
featureScoreOfAllKinds(m) ==
    pointFeatureScore * m.points + planeFeatureScore * m.planes + point2dFeatureScore * m.points2D

----------------------------------------------------------------------------
(* Poses *)

Pose(p, c) == [p |-> p, cov |-> c]

\* A default constructed utils::Pose (optimizedPose before the optimisation).
\* Nothing is assumed of its covariance.
DefaultPose == Pose("p0", "invalid")

set_parameters(pose, p) == [pose EXCEPT !.p = p]
set_position_variance(pose, c) == [pose EXCEPT !.cov = c]
get_pose_variance(pose) == pose.cov
\* The position block of a valid covariance is valid.
get_position_variance(pose) == pose.cov

----------------------------------------------------------------------------
(* Pose optimisation as compute_new_pose sees it.  What the RANSAC loop    *)
(* and the Monte-Carlo runs computed is an input o of the frame.           *)

\* A variant that returns the sample covariance without testing it.
compute_pose_variance_unchecked(iterations, o) ==
    IF iterations = 0 THEN [ok |-> FALSE, poseCovariance |-> "invalid"]
    ELSE IF o.poses < iterations \div 2 THEN [ok |-> FALSE, poseCovariance |-> "invalid"]
    ELSE [ok |-> TRUE, poseCovariance |-> o.covariance]

\* compute_pose_variance: o.poses is poses.size() after the runs, o.covariance the
\* sample covariance with 0.001 added on its diagonal.
compute_pose_variance(iterations, o) ==
    IF iterations = 0 THEN [ok |-> FALSE, poseCovariance |-> "invalid"]
    ELSE IF o.poses < iterations \div 2 THEN [ok |-> FALSE, poseCovariance |-> "invalid"]
    ELSE IF ~is_covariance_valid(o.covariance) THEN [ok |-> FALSE, poseCovariance |-> o.covariance]
    ELSE [ok |-> TRUE, poseCovariance |-> o.covariance]

\* compute_pose_with_ransac, from its caller: o.ok says that the loop found enough
\* inliers and that the final optimisation converged to o.pose.
compute_pose_with_ransac(pose, m, outputPose, o) ==
    IF hasNotEnoughFeatures(m) THEN [ok |-> FALSE, finalPose |-> outputPose]
    ELSE IF o.ok THEN [ok |-> TRUE, finalPose |-> set_parameters(outputPose, o.pose)]
    ELSE [ok |-> FALSE, finalPose |-> outputPose]

compute_optimized_pose(pose, m, optimizedPose, o) ==
    LET r == compute_pose_with_ransac(pose, m, optimizedPose, o.ransac)
        v == compute_pose_variance(poseVarianceIterations, o.variance)
    IN  IF r.ok /\ v.ok
        THEN [ok |-> TRUE, optimizedPose |-> set_position_variance(r.finalPose, v.poseCovariance)]
        ELSE [ok |-> FALSE, optimizedPose |-> r.finalPose]

----------------------------------------------------------------------------
(* Inverse-depth points: PointInverseDepth.  A point is                    *)
(* [coordinates, covariance, descriptor].                                  *)

InvPoint(x, c, d) == [coordinates |-> x, covariance |-> c, descriptor |-> d]

\* PointInverseDepth::PointInverseDepth(observation, c2w, stateCovariance, descriptor):
\* throws on an invalid stateCovariance; the covariance it builds is the block
\* diagonal of stateCovariance and of positive constants.
PointInverseDepth(x, stateCovariance, d) ==
    IF ~is_covariance_valid(stateCovariance) THEN [thrown |-> TRUE, point |-> NoPoint]
    ELSE [thrown |-> FALSE, point |-> InvPoint(x, stateCovariance, d)]

\* PointInverseDepth::compute_inverse_depth_covariance: throws unless the input and
\* the propagated covariance are valid.  res is the propagated covariance.
compute_inverse_depth_covariance(pointCovariance, firstPoseCovariance, res) ==
    IF ~is_covariance_valid(pointCovariance) THEN [thrown |-> TRUE, cov |-> "invalid"]
    ELSE IF ~is_covariance_valid(firstPoseCovariance) THEN [thrown |-> TRUE, cov |-> "invalid"]
    ELSE IF ~is_covariance_valid(res) THEN [thrown |-> TRUE, cov |-> "invalid"]
    ELSE [thrown |-> FALSE, cov |-> res]

\* PointInverseDepth::update_with_cartesian.  o holds what the numerics give:
\*   o.covariance      the covariance of the observation (the argument)
\*   o.cartesian       the cartesian covariance of the point's own state
\*   o.newState        the Kalman state, o.newCovariance its covariance
\*   o.resCovariance   newCovariance propagated back to inverse depth
\*   o.descriptor      the descriptor of the observation (maybe empty)
\* The result: the point after the call, the returned value, whether exit(-1) ran.
update_with_cartesian(pt, o) ==
    IF ~is_covariance_valid(o.covariance)
    THEN [point |-> pt, ret |-> FALSE, exit |-> FALSE]
    ELSE IF ~is_covariance_valid(pt.covariance)
    THEN [point |-> pt, ret |-> FALSE, exit |-> TRUE]
    ELSE IF ~is_covariance_valid(o.cartesian)            \* compute_cartesian_covariance throws
    THEN [point |-> pt, ret |-> FALSE, exit |-> FALSE]
    ELSE IF ~is_covariance_valid(o.newCovariance)        \* thrown at the kalman output
    THEN [point |-> pt, ret |-> FALSE, exit |-> FALSE]
    ELSE LET moved == [pt EXCEPT !.coordinates = o.newState]
             c == compute_inverse_depth_covariance(o.newCovariance, pt.covariance, o.resCovariance)
         IN  IF c.thrown
             THEN [point |-> moved, ret |-> FALSE, exit |-> FALSE]
             ELSE [point |-> [moved EXCEPT !.covariance = c.cov,
                                           !.descriptor = IF o.descriptor # EmptyDescriptor
                                                          THEN o.descriptor ELSE @],
                   ret |-> TRUE, exit |-> FALSE]

KalmanOracle(c, k, n, s, r, d) ==
    [covariance |-> c, cartesian |-> k, newCovariance |-> n, newState |-> s,
     resCovariance |-> r, descriptor |-> d]

\* The outcomes of the numerics of one frame's update of one point.
EngineKalmanOracles ==
    {KalmanOracle("invalid", "covA", "covA", "x0", "covA", EmptyDescriptor),
     KalmanOracle("covA", "invalid", "covA", "x0", "covA", EmptyDescriptor),
     KalmanOracle("covA", "covA", "invalid", "x0", "covA", EmptyDescriptor)}
    \cup {KalmanOracle("covA", "covA", "covA", "x1", r, "d1") : r \in {"invalid", "covA"}}

----------------------------------------------------------------------------
(* RGBD_SLAM: the constructor and compute_new_pose (called by track).      *)

\* The places of the local map that may hold an inverse-depth point.
Slots == {1}
PresentSlots == {s \in Slots : invPoints[s] # NoPoint}

NoFrame == [matched |-> [points |-> 0, planes |-> 0, points2D |-> 0],
            isPoseValid |-> FALSE, optimizedPose |-> DefaultPose]
NoDetected == [valid |-> 0]
NoOut == [newPose |-> DefaultPose, outcome |-> "none", poseAtCall |-> DefaultPose,
          lostAtCall |-> TRUE, countAtCall |-> 0, starved |-> FALSE,
          detected |-> NoDetected, staged |-> 0, tested |-> 0]

\* RGBD_SLAM::RGBD_SLAM
InitEngine ==
    /\ isTrackingLost = TRUE
    /\ failedTrackingCount = 0
    /\ isFirstTrackingCall = TRUE
    /\ startPose \in {Pose("p0", c) : c \in {"invalid", "covA"}}
    /\ currentPose = startPose
    /\ invPoints = [s \in Slots |-> NoPoint]
    /\ exited = FALSE
    /\ pc = "ready"
    /\ frame = NoFrame
    /\ out = NoOut
    /\ consecutiveFailed = 0

\* What find_feature_matches may return: the matched 2D points are inverse-depth
\* points of the map.
MatchedInputs ==
    [points : {0, minimumPointForOptimization - 1, minimumPointForOptimization},
     planes : {0, 1},
     points2D : 0..Cardinality(PresentSlots)]

NoOptimization == [ransac |-> [ok |-> FALSE, pose |-> "p0"],
                   variance |-> [poses |-> 0, covariance |-> "invalid"]]

VariancePoseCounts ==
    {0, poseVarianceIterations \div 2 - 1, poseVarianceIterations \div 2, poseVarianceIterations}

\* What the optimisation of a frame may compute.  When the optimisation does not
\* run, or stops before the loop, one value stands for all.
OptimizationInputs(first, m) ==
    IF first \/ hasNotEnoughFeatures(m) THEN {NoOptimization}
    ELSE {NoOptimization}
         \cup {[ransac |-> [ok |-> TRUE, pose |-> p], variance |-> [poses |-> n, covariance |-> c]] :
                 p \in PoseValues, n \in VariancePoseCounts, c \in {"invalid", "covA"}}

\* (not _isFirstTrackingCall) and compute_optimized_pose(...)
isPoseValidOf(first, pose, m, o) ==
    IF first THEN [ok |-> FALSE, optimizedPose |-> DefaultPose]
    ELSE compute_optimized_pose(pose, m, DefaultPose, o)

\* compute_new_pose up to the test of isPoseValid: the exit on an invalid stored
\* covariance, the matches and the optimisation.
ComputePose ==
    /\ pc = "ready"
    /\ ~exited
    /\ failedTrackingCount < MaxFailedCount
    /\ IF ~is_covariance_valid(get_pose_variance(currentPose))
       THEN /\ exited' = TRUE
            /\ UNCHANGED <<pc, frame>>
       ELSE /\ \E m \in MatchedInputs :
               \E o \in OptimizationInputs(isFirstTrackingCall, m) :
                  LET r == isPoseValidOf(isFirstTrackingCall, currentPose, m, o)
                  IN  frame' = [matched |-> m, isPoseValid |-> r.ok,
                                optimizedPose |-> r.optimizedPose]
            /\ pc' = "update"
            /\ UNCHANGED exited
    /\ UNCHANGED <<isTrackingLost, failedTrackingCount, isFirstTrackingCall, currentPose,
                   invPoints, out, startPose, consecutiveFailed>>
    /\ UNCHANGED notEngineVars

----------------------------------------------------------------------------
(* The local map, as far as compute_new_pose uses it.  Only its inverse-   *)
(* depth points are kept; the other features are counted when staged.      *)

\* No keypoint without depth.
NoObservation == [coordinates |-> "x0", descriptor |-> EmptyDescriptor]

FreeSlots(points) == {s \in Slots : points[s] = NoPoint}
LowestOf(S) == CHOOSE s \in S : \A t \in S : s <= t

\* Features that were lost or dropped leave the map.
remove_features(points, removed) ==
    [s \in Slots |-> IF s \in removed THEN NoPoint ELSE points[s]]

\* Local_Map::update_no_pose: every feature gets update_no_match, no staged
\* feature is created.
update_no_pose(points, removed) ==
    [points |-> remove_features(points, removed), staged |-> 0]

\* A staged inverse-depth point built from a detected keypoint without depth
\* (StagedMapPoint2D constructor); np is its observation.
stage_point2d(points, poseCovariance, np) ==
    IF np = NoObservation \/ FreeSlots(points) = {} THEN points
    ELSE LET made == PointInverseDepth(np.coordinates, poseCovariance, np.descriptor)
         IN  IF made.thrown THEN points
             ELSE [points EXCEPT ![LowestOf(FreeSlots(points))] = made.point]

\* Local_Map::add_features_to_map(poseCovariance, cameraToWorld, detected, true):
\* every detected keypoint with a non-empty descriptor becomes a staged feature.
add_features_to_map(points, poseCovariance, detected, np) ==
    [points |-> stage_point2d(points, poseCovariance, IF detected.valid > 0 THEN np ELSE NoObservation),
     staged |-> detected.valid]

\* Local_Map::update(optimizedPose, detected, outliers...): the matched inverse-depth
\* points T are tracked (k[s] is what the numerics give for slot s), lost features
\* leave, and the detected keypoints with a descriptor that no match used (all but
\* u.used of them) become staged features.  u.throws: the update throws after the
\* tracking of the matched features.
update(points, optimizedPose, detected, T, k, u) ==
    LET res == [s \in Slots |-> IF s \in T THEN update_with_cartesian(points[s], k[s])
                                ELSE [point |-> points[s], ret |-> FALSE, exit |-> FALSE]]
        tracked == [s \in Slots |-> res[s].point]
        tested == Cardinality({s \in T : is_covariance_valid(k[s].covariance)})
        exits == \E s \in T : res[s].exit
        kept == remove_features(tracked, u.removed)
        unused == detected.valid - u.used
    IN  IF exits
        THEN [points |-> tracked, staged |-> 0, tested |-> tested, thrown |-> FALSE, exit |-> TRUE]
        ELSE IF u.throws
        THEN [points |-> tracked, staged |-> 0, tested |-> tested, thrown |-> TRUE, exit |-> FALSE]
        ELSE [points |-> stage_point2d(kept, get_position_variance(optimizedPose),
                                       IF unused > 0 THEN u.newPoint ELSE NoObservation),
              staged |-> unused, tested |-> tested, thrown |-> FALSE, exit |-> FALSE]

\* detect_features: the keypoints of the frame, counted by the state of their
\* descriptor.
DetectedInputs == [valid : 0..MaxKeypoints]

\* The first staged keypoint without depth, if there is one and the map has room.
NewPointInputs(points, n) ==
    IF n = 0 \/ FreeSlots(points) = {} THEN {NoObservation}
    ELSE {NoObservation, [coordinates |-> "x0", descriptor |-> "d1"]}

\* The features that may leave the map in a frame.
RemovedInputs(points, T) == SUBSET ({s \in Slots : points[s] # NoPoint} \ T)

\* What Local_Map::update may do with the detected keypoints.
UpdateInputs(points, detected, T) ==
    {[throws |-> TRUE, used |-> 0, newPoint |-> NoObservation, removed |-> {}]}
    \cup UNION {UNION {{[throws |-> FALSE, used |-> n, newPoint |-> np, removed |-> rm] :
                         np \in NewPointInputs(remove_features(points, rm), detected.valid - n)} :
                       rm \in RemovedInputs(points, T)} :
                 n \in {0, detected.valid}}

\* Variants of the threshold test: lost from the third failure on, and lost at
\* the fourth failure only.
isLostFromLimit(count) == count >= failedTrackingLimit
isLostAtLimitOnly(count) == count = failedTrackingLimit + 1

\* _isTrackingLost = (++_failedTrackingCount) > 3
isLostAfterFailure(count) == count > failedTrackingLimit

\* A variant that adds the detected features on every frame without a pose.
shouldAddFeaturesAlways(lost, poseCovariance) == TRUE

\* The test before add_features_to_map in the branch without a valid pose.
shouldAddFeatures(lost, poseCovariance) == lost /\ is_covariance_valid(poseCovariance)

Finish(newPose, outcome, detected, staged, tested) ==
    /\ out' = [newPose |-> newPose, outcome |-> outcome, poseAtCall |-> currentPose,
               lostAtCall |-> isTrackingLost, countAtCall |-> failedTrackingCount,
               starved |-> hasNotEnoughFeatures(frame.matched),
               detected |-> detected, staged |-> staged, tested |-> tested]
    /\ consecutiveFailed' = CASE outcome = "success" -> 0
                              [] outcome = "first" -> consecutiveFailed
                              [] OTHER -> consecutiveFailed + 1
    /\ isFirstTrackingCall' = FALSE
    /\ frame' = NoFrame
    /\ pc' = "ready"

\* compute_new_pose, the branch with a valid pose.
UpdateWithPose(detected) ==
    \E T \in {S \in SUBSET PresentSlots : Cardinality(S) = frame.matched.points2D} :
    \E k \in [T -> EngineKalmanOracles] :
    \E u \in UpdateInputs(invPoints, detected, T) :
        LET r == update(invPoints, frame.optimizedPose, detected, T, k, u)
        IN  /\ currentPose' = frame.optimizedPose
            /\ IF r.exit
               THEN /\ exited' = TRUE
                    /\ invPoints' = r.points
                    /\ UNCHANGED <<isTrackingLost, failedTrackingCount, isFirstTrackingCall,
                                   pc, frame, out, consecutiveFailed>>
               ELSE IF r.thrown
               THEN /\ invPoints' = update_no_pose(r.points, {}).points
                    /\ failedTrackingCount' = failedTrackingCount + 1
                    /\ isTrackingLost' = isLostAfterFailure(failedTrackingCount + 1)
                    /\ Finish(frame.optimizedPose, "updateThrew", detected, 0, r.tested)
                    /\ UNCHANGED exited
               ELSE /\ invPoints' = r.points
                    /\ isTrackingLost' = FALSE
                    /\ failedTrackingCount' = 0
                    /\ Finish(frame.optimizedPose, "success", detected, r.staged, r.tested)
                    /\ UNCHANGED exited

\* compute_new_pose, the branch without a valid pose.
UpdateWithoutPose(detected) ==
    \E removed \in RemovedInputs(invPoints, {}) :
    \E np \in NewPointInputs(remove_features(invPoints, removed), detected.valid) :
        LET predictedPose == currentPose
            poseCovariance == get_position_variance(predictedPose)
            n == update_no_pose(invPoints, removed)
            a == IF shouldAddFeatures(isTrackingLost, poseCovariance)
                 THEN add_features_to_map(n.points, poseCovariance, detected, np)
                 ELSE n
        IN  /\ invPoints' = a.points
            /\ IF ~isFirstTrackingCall
               THEN /\ failedTrackingCount' = failedTrackingCount + 1
                    /\ isTrackingLost' = isLostAfterFailure(failedTrackingCount + 1)
               ELSE UNCHANGED <<failedTrackingCount, isTrackingLost>>
            /\ Finish(predictedPose, IF isFirstTrackingCall THEN "first" ELSE "noPose",
                      detected, a.staged, 0)
            /\ UNCHANGED <<currentPose, exited>>

\* compute_new_pose from the test of isPoseValid to its return.
UpdateMap ==
    /\ pc = "update"
    /\ \E detected \in DetectedInputs :
          IF frame.isPoseValid THEN UpdateWithPose(detected) ELSE UpdateWithoutPose(detected)
    /\ UNCHANGED startPose
    /\ UNCHANGED notEngineVars

----------------------------------------------------------------------------
(* Properties of the tracking loop *)

\* A call of track after the first one has returned.
FrameEnded == pc = "ready" /\ out.outcome \in {"noPose", "updateThrew", "success"}

\* A frame fails when no valid pose was found or when the map update threw; the
\* code counts both in _failedTrackingCount ("no valid transformation").
FrameFailed == out.outcome \in {"noPose", "updateThrew"}

\* C1: at the end of every frame after the first call, isTrackingLost is true
\* exactly when the frame is the 4th or a later consecutive failed frame, the
\* counter failedTrackingCount is the number of consecutive failed frames, and
\* after 1, 2 or 3 consecutive failed frames isTrackingLost is false.
C1_LostFromFourthFailure ==
    FrameEnded =>
        /\ failedTrackingCount = consecutiveFailed
        /\ isTrackingLost <=> (consecutiveFailed >= 4)
        /\ isTrackingLost <=> (failedTrackingCount > 3)
        /\ consecutiveFailed \in 1..3 => ~isTrackingLost

C1_Witness ==
    FrameEnded /\ consecutiveFailed = 4 /\ isTrackingLost /\ out.outcome = "noPose"

\* C2 as stated: from every state where isTrackingLost is true, a failing frame
\* leaves it true, and it becomes false only at a successful frame, which resets
\* failedTrackingCount to 0.
C2_LostStaysLost ==
    (FrameEnded /\ out.lostAtCall) =>
        /\ FrameFailed => isTrackingLost
        /\ ~isTrackingLost => (out.outcome = "success" /\ failedTrackingCount = 0)

\* C2, amended: the same for the states where isTrackingLost is true and
\* failedTrackingCount is above 3.
C2_LostAfterFailuresStaysLost ==
    (FrameEnded /\ out.lostAtCall /\ out.countAtCall > 3) =>
        /\ FrameFailed => (isTrackingLost /\ failedTrackingCount = out.countAtCall + 1)
        /\ ~isTrackingLost => (out.outcome = "success" /\ failedTrackingCount = 0)

C2_Witness ==
    /\ FrameEnded /\ out.lostAtCall /\ out.countAtCall > 3
    /\ out.outcome = "success" /\ ~isTrackingLost /\ failedTrackingCount = 0

\* C3: a call of track with a per-frame failure (no valid pose, or an update of
\* the local map that throws) returns the pose stored before the call and leaves
\* the stored pose as it was.
C3_FailureKeepsPose ==
    (FrameEnded /\ FrameFailed) =>
        (out.newPose = out.poseAtCall /\ currentPose = out.poseAtCall)

\* C4: from a start pose with a valid covariance the process never exits: the
\* stored pose always has a valid covariance, and so has every inverse-depth point
\* of the map.
C4_NeverExits ==
    is_covariance_valid(get_pose_variance(startPose)) =>
        /\ ~exited
        /\ is_covariance_valid(get_pose_variance(currentPose))
        /\ \A s \in PresentSlots : is_covariance_valid(invPoints[s].covariance)

C4_Witness ==
    /\ is_covariance_valid(get_pose_variance(startPose))
    /\ pc = "ready" /\ out.outcome = "success" /\ out.tested > 0
    /\ currentPose # startPose

\* C5 as stated: on a frame with too few matches for the optimisation, track
\* returns the previous pose and every detected keypoint with a descriptor
\* becomes a staged feature.
C5_StarvedFrameStagesAll ==
    (FrameEnded /\ out.starved) =>
        (out.newPose = out.poseAtCall /\ out.staged = out.detected.valid)

\* C5, amended: on such a frame track returns the previous pose; every detected
\* keypoint with a descriptor becomes a staged feature when isTrackingLost was
\* true at the start of the frame, and none does otherwise.
C5_StarvedFrameStagesWhenLost ==
    (FrameEnded /\ out.starved) =>
        /\ out.outcome = "noPose"
        /\ out.newPose = out.poseAtCall
        /\ out.staged = (IF out.lostAtCall THEN out.detected.valid ELSE 0)

C5_Witness ==
    /\ FrameEnded /\ out.starved /\ ~out.lostAtCall
    /\ out.detected.valid > 0 /\ out.staged = 0

----------------------------------------------------------------------------
(* Pose_Optimization::compute_optimized_pose, step by step.  The matches   *)
(* of a kind are numbered from 1; a pose of the optimisation is one of     *)
(* RansacPoses, and Residual gives the retroprojection distance of a match *)
(* under a pose.                                                           *)

RansacPoses == {"p0", "p1", "p2", "p3", "p4"}

\* The retroprojection distance of match i of a kind under a pose: under p0 every
\* match is at its threshold, under p1 every distance is 0, under p2 the first
\* point is at its threshold and the rest at 0, under p3 every distance is 1,
\* under p4 every distance is above the threshold.
Residual(pose, kind, i) ==
    CASE pose = "p0" -> 2
      [] pose = "p1" -> 0
      [] pose = "p2" -> IF kind = "point" /\ i = 1 THEN 2 ELSE 0
      [] pose = "p3" -> 1
      [] OTHER -> 3

\* Computing the distance of match i throws: under p4, for the first match of a kind.
ResidualThrows(pose, kind, i) == pose = "p4" /\ i = 1

Min(a, b) == IF a < b THEN a ELSE b
Max(a, b) == IF a < b THEN b ELSE a
Clamp(x, lo, hi) == IF x < lo THEN lo ELSE IF hi < x THEN hi ELSE x
\* std::ceil(a / b) for a >= 0, b > 0
CeilDiv(a, b) == (a + b - 1) \div b

RECURSIVE SumOver(_, _)
SumOver(f, S) ==
    IF S = {} THEN 0
    ELSE LET x == CHOOSE y \in S : TRUE IN f[x] + SumOver(f, S \ {x})

EmptySet == [inliers |-> {}, outliers |-> {}]
\* matches_containers::match_sets after clear()
EmptySets == [points2D |-> EmptySet, points |-> EmptySet, planes |-> EmptySet]

\* A variant of get_point_inliers_outliers that adds up the distances as they are.
get_point_inliers_outliers_unbounded(n, pose) ==
    [score |-> SumOver([i \in 1..n |-> IF ResidualThrows(pose, "point", i)
                                       THEN pointMaxRetroprojectionError
                                       ELSE Residual(pose, "point", i)], 1..n),
     sets |-> [inliers |-> {i \in 1..n : /\ ~ResidualThrows(pose, "point", i)
                                         /\ Residual(pose, "point", i) < pointMaxRetroprojectionError},
               outliers |-> {i \in 1..n : \/ ResidualThrows(pose, "point", i)
                                          \/ ~(Residual(pose, "point", i) < pointMaxRetroprojectionError)}]]

\* get_point_inliers_outliers: a match whose distance throws is an outlier and adds
\* the threshold to the score.
get_point_inliers_outliers(n, pose) ==
    [score |-> SumOver([i \in 1..n |-> IF ResidualThrows(pose, "point", i)
                                       THEN pointMaxRetroprojectionError
                                       ELSE Min(pointMaxRetroprojectionError,
                                                Residual(pose, "point", i))], 1..n),
     sets |-> [inliers |-> {i \in 1..n : /\ ~ResidualThrows(pose, "point", i)
                                         /\ Residual(pose, "point", i) < pointMaxRetroprojectionError},
               outliers |-> {i \in 1..n : \/ ResidualThrows(pose, "point", i)
                                          \/ ~(Residual(pose, "point", i) < pointMaxRetroprojectionError)}]]

\* get_plane_inliers_outliers
get_plane_inliers_outliers(n, pose) ==
    [score |-> SumOver([i \in 1..n |-> IF ResidualThrows(pose, "plane", i)
                                       THEN planeMaxRetroprojectionError
                                       ELSE Min(planeMaxRetroprojectionError,
                                                Residual(pose, "plane", i))], 1..n),
     sets |-> [inliers |-> {i \in 1..n : /\ ~ResidualThrows(pose, "plane", i)
                                         /\ Residual(pose, "plane", i) < planeMaxRetroprojectionError},
               outliers |-> {i \in 1..n : \/ ResidualThrows(pose, "plane", i)
                                          \/ ~(Residual(pose, "plane", i) < planeMaxRetroprojectionError)}]]

\* get_features_inliers_outliers: SHOULD_USE_INVERSE_POINTS is 0, the 2D points
\* are not evaluated and the 2D sets of featureSet are left as they are.
get_features_inliers_outliers(m, pose, featureSet) ==
    LET pt == get_point_inliers_outliers(m.points, pose)
        pl == get_plane_inliers_outliers(m.planes, pose)
    IN  [score |-> pt.score + pl.score,
         sets |-> [points2D |-> featureSet.points2D, points |-> pt.sets, planes |-> pl.sets]]

\* inlierScore of compute_pose_with_ransac (times ScoreOne).
inlierScoreOf(sets) ==
    Cardinality(sets.points2D.inliers) * pointFeatureScore
    + Cardinality(sets.points.inliers) * pointFeatureScore
    + Cardinality(sets.planes.inliers) * planeFeatureScore

\* static_cast<uint>(size * minimumInliersProportionForEarlyStop)
acceptableInliersForEarlyStop(size) == (size * earlyStopNumerator) \div earlyStopDenominator

\* enoughInliersScore (times ScoreOne)
enoughInliersScore(m) ==
    Max(ScoreOne, point2dFeatureScore * acceptableInliersForEarlyStop(m.points2D)
                  + pointFeatureScore * acceptableInliersForEarlyStop(m.points)
                  + planeFeatureScore * acceptableInliersForEarlyStop(m.planes))

\* maxFittingScore, in units of the residuals
maxFittingScore(m) ==
    m.points2D * point2dMaxRetroprojectionError + m.points * pointMaxRetroprojectionError
    + m.planes * planeMaxRetroprojectionError

\* A variant of get_min_max_number_of_features for SHOULD_USE_INVERSE_POINTS at 1:
\* the most of the 2D points is not put to 0.
get_min_max_with_inverse_points(fc) ==
    LET maxPlanes == Min(minimumPlanesForOptimization, fc.planes)
        maxPoints == Min(minimumPointForOptimization, fc.points)
        max2d == Min(minimumPointForOptimization, fc.points2D)
        missing(other) == ScoreOne - Clamp(other, 0, ScoreOne)
    IN  [planes |-> [min |-> CeilDiv(missing(maxPoints * pointFeatureScore + max2d * point2dFeatureScore),
                                     planeFeatureScore),
                     max |-> maxPlanes],
         points |-> [min |-> CeilDiv(missing(maxPlanes * planeFeatureScore + max2d * point2dFeatureScore),
                                     pointFeatureScore),
                     max |-> maxPoints],
         points2D |-> [min |-> CeilDiv(missing(maxPlanes * planeFeatureScore + maxPoints * pointFeatureScore),
                                       point2dFeatureScore),
                       max |-> max2d]]

\* get_min_max_number_of_features: for each kind the least and the most features
\* of a selection.  The most is min(minNumberOfFeatureForOpti, count); the 2D points
\* get a most of 0, after the least of the planes and of the points was computed.
get_min_max_number_of_features(fc) ==
    LET maxPlanes == Min(minimumPlanesForOptimization, fc.planes)
        maxPoints == Min(minimumPointForOptimization, fc.points)
        max2d == Min(minimumPointForOptimization, fc.points2D)
        missing(other) == ScoreOne - Clamp(other, 0, ScoreOne)
    IN  [planes |-> [min |-> CeilDiv(missing(maxPoints * pointFeatureScore + max2d * point2dFeatureScore),
                                     planeFeatureScore),
                     max |-> maxPlanes],
         points |-> [min |-> CeilDiv(missing(maxPlanes * planeFeatureScore + max2d * point2dFeatureScore),
                                     pointFeatureScore),
                     max |-> maxPoints],
         points2D |-> [min |-> CeilDiv(missing(maxPlanes * planeFeatureScore + maxPoints * pointFeatureScore),
                                       point2dFeatureScore),
                       max |-> 0]]

\* The feature kinds in the order of featureIndexPlane, featureIndexPoint,
\* featureIndex2dPoint.
FeatureKinds == <<"planes", "points", "points2D">>

\* scorePerFeature (times ScoreOne)
scorePerFeature(kind) ==
    CASE kind = "planes" -> planeFeatureScore
      [] kind = "points" -> pointFeatureScore
      [] OTHER -> point2dFeatureScore

\* uint wraps around at 2^32; the integers of the model checker end below that, so
\* the model wraps at 2^30, far above every count of the model all the same.
UintModulus == 2 ^ 30

\* (uint)std::ceil(get_normal_double() * scoreLeft / scorePerFeature[i]).  With no
\* score left the product is 0.  Otherwise the normal draw can ask for any count; a
\* negative draw below -1 makes the conversion to uint undefined, and the builds
\* give 0 or a value that wraps around.
DrawnCounts(scoreLeft) ==
    IF scoreLeft = 0 THEN {0}
    ELSE (0..MaxDrawnCount) \cup {UintModulus - j : j \in 1..MaxDrawnCount}

\* The body of the for loop of get_random_selection for one kind and one draw.
\* st is [selection, scoreAccumulation].
select_of_kind(st, kind, mm, selectedFeatureCount) ==
    LET newVal == Clamp((st.selection[kind] + selectedFeatureCount) % UintModulus,
                        mm[kind].min, mm[kind].max)
    IN  IF newVal > st.selection[kind]
        THEN [selection |-> [st.selection EXCEPT ![kind] = newVal],
              scoreAccumulation |-> st.scoreAccumulation
                                    + (newVal - st.selection[kind]) * scorePerFeature(kind)]
        ELSE st

\* The for loop over the kinds from kind number i on, for every draw.
RECURSIVE select_pass(_, _, _)
select_pass(states, i, mm) ==
    IF i > Len(FeatureKinds) THEN states
    ELSE select_pass(UNION {{select_of_kind(st, FeatureKinds[i], mm, k) :
                               k \in DrawnCounts(ScoreOne - Clamp(st.scoreAccumulation, 0, ScoreOne))} :
                            st \in states},
                     i + 1, mm)

\* The while loop: the states at the end of a pass, from the ones not seen yet.
RECURSIVE select_loop(_, _, _)
select_loop(frontier, seen, mm) ==
    LET running == {st \in frontier : st.scoreAccumulation < ScoreOne}
        next == select_pass(running, 1, mm) \ seen
    IN  IF next = {} THEN seen ELSE select_loop(next, seen \cup next, mm)

\* get_random_selection: every selection that the loop can end with.  The counts
\* featuresCounts are only read by the warning after the loop.
get_random_selection(fc, mm) ==
    LET start == [selection |-> [planes |-> 0, points |-> 0, points2D |-> 0],
                  scoreAccumulation |-> 0]
    IN  {st.selection : st \in {t \in select_loop({start}, {start}, mm) :
                                    t.scoreAccumulation >= ScoreOne}}

\* get_random_subset up to its first throw: SHOULD_USE_INVERSE_POINTS is 0 and no
\* 2D point is sampled, whatever the selection says.
get_random_subset(selection) ==
    LET sampled == [selection EXCEPT !.points2D = 0]
    IN  [sampled |-> sampled, subsetScore |-> featureScoreOfAllKinds(sampled),
         thrown |-> featureScoreOfAllKinds(sampled) < ScoreOne]

NoSubset == [made |-> FALSE]

\* What Levenberg-Marquardt may give: no convergence, or a pose.
LmOutcomes == {"failed"} \cup RansacPoses

\* compute_optimized_global_pose(start, sets, optimizedPose) for the outcome lm.
compute_optimized_global_pose(start, outputPose, lm) ==
    IF lm = "failed" THEN [ok |-> FALSE, pose |-> outputPose]
    ELSE [ok |-> TRUE, pose |-> set_parameters(outputPose, lm)]

\* A variant of the end of compute_pose_with_ransac that falls back to the best
\* candidate when the final optimisation fails.
ransac_final_pass_with_fallback(best, sets, outputPose, lm) ==
    IF inlierScoreOf(sets) < ScoreOne THEN [ok |-> FALSE, pose |-> outputPose, lm |-> "none"]
    ELSE LET r == compute_optimized_global_pose(best, outputPose, lm)
         IN  IF r.ok THEN [ok |-> TRUE, pose |-> r.pose, lm |-> "ok"]
             ELSE [ok |-> TRUE, pose |-> set_parameters(outputPose, best), lm |-> "failed"]

\* The end of compute_pose_with_ransac: the test of the inlier score and the final
\* optimisation over the inliers, from the best pose of the loop.
ransac_final_pass(best, sets, outputPose, lm) ==
    IF inlierScoreOf(sets) < ScoreOne THEN [ok |-> FALSE, pose |-> outputPose, lm |-> "none"]
    ELSE LET r == compute_optimized_global_pose(best, outputPose, lm)
         IN  IF r.ok THEN [ok |-> TRUE, pose |-> r.pose, lm |-> "ok"]
             ELSE [ok |-> FALSE, pose |-> outputPose, lm |-> "failed"]

RansacMatchedInputs ==
    [planes : 0..MaxPlaneMatches, points : 0..MaxPointMatches, points2D : 0..1]

\* The state before a call.
InitRansac ==
    /\ rpc = "idle"
    /\ matchedFeatures = [planes |-> 0, points |-> 0, points2D |-> 0]
    /\ callerPose = Pose("p0", "covA")
    /\ finalPose = DefaultPose
    /\ featureSets = EmptySets
    /\ iteration = 0
    /\ minScore = 0
    /\ bestPose = "p0"
    /\ ransacRet = FALSE
    /\ optimizedRet = FALSE
    /\ outBefore = DefaultPose
    /\ iterationsRun = 0
    /\ finalLm = "none"
    /\ subsetSelection = NoSubset
    /\ candidateLog = <<>>

\* compute_optimized_pose calls compute_pose_with_ransac: everything before the loop.
RansacStart ==
    /\ rpc = "idle"
    /\ \E m \in RansacMatchedInputs, o \in {DefaultPose, Pose("p3", "covA")} :
        /\ matchedFeatures' = m
        /\ finalPose' = o
        /\ outBefore' = o
        /\ featureSets' = EmptySets
        /\ IF hasNotEnoughFeatures(m) \/ MaxIterations <= 0
              \/ maxFittingScore(m) * ScoreOne < enoughInliersScore(m)
           THEN /\ rpc' = "done"
                /\ UNCHANGED <<minScore, bestPose>>
           ELSE /\ rpc' = "loop"
                /\ minScore' = maxFittingScore(m)
                /\ bestPose' = callerPose.p
    /\ iteration' = 0
    /\ ransacRet' = FALSE
    /\ optimizedRet' = FALSE
    /\ candidateLog' = <<>>
    /\ UNCHANGED <<callerPose, iterationsRun, finalLm, subsetSelection>>
    /\ UNCHANGED notRansacVars

\* A variant of the comparison that also takes a candidate that only equals the
\* best score so far.
isBetterOrEqualScore(transformationScore, lowest, highest) ==
    /\ ~(transformationScore > highest)
    /\ transformationScore <= lowest

\* The two tests of the loop on the score of a candidate: not above maxFittingScore,
\* and strictly below minScore.
isBetterScore(transformationScore, lowest, highest) ==
    /\ ~(transformationScore > highest)
    /\ transformationScore < lowest

\* One iteration of the loop of compute_pose_with_ransac.  A throw of
\* get_random_subset leaves the noexcept function and ends the process.
RansacIterate ==
    /\ rpc = "loop"
    /\ iteration < MaxIterations
    /\ LET mm == get_min_max_number_of_features(matchedFeatures)
       IN  \E selection \in get_random_selection(matchedFeatures, mm), lm \in LmOutcomes :
            LET subset == get_random_subset(selection)
                candidate == compute_optimized_global_pose(callerPose.p, DefaultPose, lm)
                candidatePose == candidate.pose.p
                potential == get_features_inliers_outliers(matchedFeatures, candidatePose, EmptySets)
                transformationScore == potential.score
                better == /\ candidate.ok
                          /\ isBetterScore(transformationScore, minScore,
                                           maxFittingScore(matchedFeatures))
                stops == better /\ inlierScoreOf(potential.sets) >= enoughInliersScore(matchedFeatures)
            IN  /\ subsetSelection' = [made |-> TRUE, minMax |-> mm, selection |-> selection,
                                       sampled |-> subset.sampled,
                                       subsetScore |-> subset.subsetScore]
                /\ IF subset.thrown
                   THEN /\ rpc' = "terminated"
                        /\ UNCHANGED <<minScore, bestPose, featureSets, iteration, candidateLog>>
                   ELSE /\ candidateLog' = Append(candidateLog,
                                IF candidate.ok
                                THEN [ok |-> TRUE, pose |-> candidatePose,
                                      score |-> transformationScore, sets |-> potential.sets]
                                ELSE [ok |-> FALSE, pose |-> candidatePose,
                                      score |-> 0, sets |-> EmptySets])
                        /\ IF better
                           THEN /\ minScore' = transformationScore
                                /\ bestPose' = candidatePose
                                /\ featureSets' = potential.sets
                           ELSE UNCHANGED <<minScore, bestPose, featureSets>>
                        /\ iteration' = IF stops THEN iteration ELSE iteration + 1
                        /\ rpc' = IF stops \/ iteration + 1 >= MaxIterations
                                  THEN "final" ELSE "loop"
    /\ iterationsRun' = iterationsRun + 1
    /\ UNCHANGED <<matchedFeatures, callerPose, finalPose, ransacRet, optimizedRet, outBefore, finalLm>>
    /\ UNCHANGED notRansacVars

\* After the loop: compute_pose_with_ransac returns; on false compute_optimized_pose
\* returns false as well.
RansacFinal ==
    /\ rpc = "final"
    /\ \E lm \in LmOutcomes :
        LET r == ransac_final_pass(bestPose, featureSets, finalPose, lm)
        IN  /\ finalPose' = r.pose
            /\ ransacRet' = r.ok
            /\ finalLm' = r.lm
            /\ rpc' = IF r.ok THEN "variance" ELSE "done"
    /\ UNCHANGED <<matchedFeatures, callerPose, featureSets, iteration, minScore, bestPose,
                   optimizedRet, outBefore, iterationsRun, subsetSelection, candidateLog>>
    /\ UNCHANGED notRansacVars

\* compute_optimized_pose after a successful compute_pose_with_ransac.
RansacVariance ==
    /\ rpc = "variance"
    /\ \E n \in VariancePoseCounts, c \in {"invalid", "covA"} :
        LET v == compute_pose_variance(poseVarianceIterations, [poses |-> n, covariance |-> c])
        IN  /\ optimizedRet' = v.ok
            /\ finalPose' = IF v.ok THEN set_position_variance(finalPose, v.poseCovariance)
                            ELSE finalPose
    /\ rpc' = "done"
    /\ UNCHANGED <<matchedFeatures, callerPose, featureSets, iteration, minScore, bestPose,
                   ransacRet, outBefore, iterationsRun, finalLm, subsetSelection,
                   candidateLog>>
    /\ UNCHANGED notRansacVars

----------------------------------------------------------------------------
(* Map points: Staged_Point and Map_Point (map_point.cpp), StagedMapPoint   *)
(* and LocalMapPoint (map_point.hpp), StagedMapPoint2D and LocalMapPoint2D  *)
(* (map_point2d.cpp).  A confidence is kept as a multiple of                *)
(* 1 / pointStagedAgeConfidence.                                            *)

\* Staged_Point::get_confidence: clamp(count / pointStagedAgeConfidence, -1, 1),
\* times pointStagedAgeConfidence.
Staged_Point_get_confidence(count) ==
    Clamp(count, -pointStagedAgeConfidence, pointStagedAgeConfidence)

\* A variant that also adds a point whose confidence is just the minimum.
Staged_Point_should_add_at_minimum(count) ==
    Staged_Point_get_confidence(count) * pointMinimumConfidenceDenominator
        >= pointMinimumConfidenceNumerator * pointStagedAgeConfidence

\* Staged_Point::should_add_to_local_map: get_confidence() > pointMinimumConfidenceForMap
Staged_Point_should_add_to_local_map(count) ==
    Staged_Point_get_confidence(count) * pointMinimumConfidenceDenominator
        > pointMinimumConfidenceNumerator * pointStagedAgeConfidence

\* Staged_Point::should_remove_from_staged: get_confidence() <= 0
Staged_Point_should_remove_from_staged(count) == Staged_Point_get_confidence(count) <= 0

\* Staged_Point::update_matched and update_unmatched
Staged_Point_update_matched(count) == count + 1
Staged_Point_update_unmatched(count, removeNMatches) == count - removeNMatches

\* A variant that loses the point as soon as the limit is reached.
Map_Point_is_lost_at_limit(failed) == failed >= pointUnmatchedCountToLoose

\* Map_Point::is_lost
Map_Point_is_lost(failed) == failed > pointUnmatchedCountToLoose

\* Map_Point::update_matched and update_unmatched on [failTrackingCount, age]
Map_Point_update_matched(pt) == [failTrackingCount |-> 0, age |-> pt.age + 1]
Map_Point_update_unmatched(pt, removeNMatches) ==
    [failTrackingCount |-> pt.failTrackingCount + removeNMatches, age |-> pt.age - 1]

RemovalCounts == {1, 2}

\* Staged_Point::Staged_Point
InitPoints ==
    /\ pointKind = "staged"
    /\ matchesCount = 0
    /\ failTrackingCount = 0
    /\ age = 0
    /\ unmatchedRun = 0
    /\ removedSum = 0
    /\ onlyUnitRemovals = TRUE

StagedMatched ==
    /\ pointKind = "staged"
    /\ matchesCount < MaxPointCount
    /\ matchesCount' = Staged_Point_update_matched(matchesCount)
    /\ UNCHANGED <<pointKind, failTrackingCount, age, unmatchedRun, removedSum, onlyUnitRemovals>>
    /\ UNCHANGED notPointVars

StagedUnmatched ==
    /\ pointKind = "staged"
    /\ matchesCount > -MaxPointCount
    /\ \E n \in RemovalCounts : matchesCount' = Staged_Point_update_unmatched(matchesCount, n)
    /\ UNCHANGED <<pointKind, failTrackingCount, age, unmatchedRun, removedSum, onlyUnitRemovals>>
    /\ UNCHANGED notPointVars

\* The local map moves a staged point that should be added to the local points
\* (Map_Point::Map_Point) and drops one that should be removed.
StagedLeaves ==
    /\ pointKind = "staged"
    /\ \/ /\ Staged_Point_should_add_to_local_map(matchesCount)
          /\ pointKind' = "local"
       \/ /\ Staged_Point_should_remove_from_staged(matchesCount)
          /\ pointKind' = "removed"
    /\ failTrackingCount' = 0
    /\ age' = 0
    /\ UNCHANGED <<matchesCount, unmatchedRun, removedSum, onlyUnitRemovals>>
    /\ UNCHANGED notPointVars

LocalMatched ==
    /\ pointKind = "local"
    /\ age < MaxPointCount
    /\ LET pt == Map_Point_update_matched([failTrackingCount |-> failTrackingCount, age |-> age])
       IN  failTrackingCount' = pt.failTrackingCount /\ age' = pt.age
    /\ unmatchedRun' = 0
    /\ removedSum' = 0
    /\ onlyUnitRemovals' = TRUE
    /\ UNCHANGED <<pointKind, matchesCount>>
    /\ UNCHANGED notPointVars

LocalUnmatched ==
    /\ pointKind = "local"
    /\ failTrackingCount < MaxPointCount
    /\ age > -MaxPointCount
    /\ \E n \in RemovalCounts :
        LET pt == Map_Point_update_unmatched([failTrackingCount |-> failTrackingCount, age |-> age], n)
        IN  /\ failTrackingCount' = pt.failTrackingCount /\ age' = pt.age
            /\ removedSum' = removedSum + n
            /\ onlyUnitRemovals' = (onlyUnitRemovals /\ n = 1)
    /\ unmatchedRun' = unmatchedRun + 1
    /\ UNCHANGED <<pointKind, matchesCount>>
    /\ UNCHANGED notPointVars

\* The local map drops a lost point.
LocalLost ==
    /\ pointKind = "local"
    /\ Map_Point_is_lost(failTrackingCount)
    /\ pointKind' = "removed"
    /\ UNCHANGED <<matchesCount, failTrackingCount, age, unmatchedRun, removedSum, onlyUnitRemovals>>
    /\ UNCHANGED notPointVars

----------------------------------------------------------------------------
(* Identifiers of the map features: map_primitive.hpp, map_point.cpp *)

INVALID_POINT_UNIQ_ID == 0
UNMATCHED_PRIMITIVE_ID == 0
firstPrimitiveId == 1       \* inline static size_t _currentPrimitiveId = 1
firstPointId == 1           \* the first value of Point::_currentPointId

\* A constructor that leaves the counter where it was.
Point_reusing_id(current) == [id |-> current, next |-> current]

\* Point::Point(coordinates, descriptor): _id(_currentPointId), then the
\* counter is incremented.
Point_new(current) == [id |-> current, next |-> current + 1]

\* Primitive::Primitive(primitive): _id(_currentPrimitiveId++).
Primitive_new(current) == [id |-> current, next |-> current + 1]

\* Point::Point(coordinates, descriptor, id): _id(id); the counter is not read.
Point_with_id(id) == id

MapFeature(kind, stage, id, builtFrom) ==
    [kind |-> kind, stage |-> stage, id |-> id, builtFrom |-> builtFrom]

\* LocalMapPoint(stagedPoint): MapPoint(..., stagedPoint._id).
LocalMapPoint(stagedPoint) ==
    MapFeature("point", "local", Point_with_id(stagedPoint.id), INVALID_POINT_UNIQ_ID)

InitIds ==
    /\ currentPointId = firstPointId
    /\ currentPrimitiveId = firstPrimitiveId
    /\ mapFeatures = {}
    /\ idLog = <<>>

\* A staged point is built from a detected keypoint, without an id.
CreateStagedPoint ==
    /\ Len(idLog) < MaxFeatureCount
    /\ LET made == Point_new(currentPointId)
       IN /\ currentPointId' = made.next
          /\ mapFeatures' = mapFeatures \cup
                 {MapFeature("point", "staged", made.id, INVALID_POINT_UNIQ_ID)}
          /\ idLog' = Append(idLog, [kind |-> "point", id |-> made.id])
    /\ UNCHANGED currentPrimitiveId
    /\ UNCHANGED notIdVars

\* A primitive of the map is built from a detected primitive, without an id.
CreatePrimitive ==
    /\ Len(idLog) < MaxFeatureCount
    /\ LET made == Primitive_new(currentPrimitiveId)
       IN /\ currentPrimitiveId' = made.next
          /\ mapFeatures' = mapFeatures \cup
                 {MapFeature("primitive", "local", made.id, UNMATCHED_PRIMITIVE_ID)}
          /\ idLog' = Append(idLog, [kind |-> "primitive", id |-> made.id])
    /\ UNCHANGED currentPointId
    /\ UNCHANGED notIdVars

\* A staged point becomes a local point: the local point is built from it
\* and the staged point is dropped.  builtFrom remembers the staged id.
PromoteStagedPoint ==
    /\ \E staged \in {f \in mapFeatures : f.kind = "point" /\ f.stage = "staged"} :
          mapFeatures' = (mapFeatures \ {staged}) \cup
              {[LocalMapPoint(staged) EXCEPT !.builtFrom = staged.id]}
    /\ UNCHANGED <<currentPointId, currentPrimitiveId, idLog>>
    /\ UNCHANGED notIdVars

----------------------------------------------------------------------------
(* PointInverseDepth::track, both overloads, on one point *)

\* track(ScreenCoordinate2D, c2w, stateCovariance, descriptor): the observation is
\* built as an inverse-depth point (throws on an invalid stateCovariance) and
\* projected to cartesian (compute_cartesian_covariance throws on an invalid
\* result, o.covariance); every exception is caught and false returned.
track(pt, stateCovariance, o) ==
    IF PointInverseDepth("x0", stateCovariance, o.descriptor).thrown
    THEN [point |-> pt, ret |-> FALSE, exit |-> FALSE]
    ELSE IF ~is_covariance_valid(o.covariance)
    THEN [point |-> pt, ret |-> FALSE, exit |-> FALSE]
    ELSE update_with_cartesian(pt, o)

\* track(ScreenCoordinate, c2w, stateCovariance, descriptor): false on an invalid
\* depth; o.covariance is what get_world_point_covariance returns.
track_with_depth(pt, depthValid, o) ==
    IF ~depthValid THEN [point |-> pt, ret |-> FALSE, exit |-> FALSE]
    ELSE update_with_cartesian(pt, o)

\* The outcomes of the numerics of one call.
TrackOracles ==
    {KalmanOracle(c, k, n, x, r, d) :
        c \in {"invalid", "covA"}, k \in {"invalid", "covA"}, n \in {"invalid", "covB"},
        x \in Coordinates, r \in {"invalid", "covB"}, d \in Descriptors \cup {EmptyDescriptor}}

NoTrackCall == [made |-> FALSE, ret |-> FALSE, before |-> NoPoint, stateCovariance |-> "invalid",
                oracle |-> KalmanOracle("invalid", "invalid", "invalid", "x0", "invalid",
                                        EmptyDescriptor)]

InitTrack ==
    /\ trackPoint = NoPoint
    /\ trackCall = NoTrackCall

\* The point is built from a first observation; a constructor that throws
\* builds no point.
TrackConstruct ==
    /\ trackPoint = NoPoint
    /\ \E x \in Coordinates, c \in Covariances, d \in Descriptors :
          LET made == PointInverseDepth(x, c, d)
          IN  /\ ~made.thrown
              /\ trackPoint' = made.point
    /\ UNCHANGED trackCall
    /\ UNCHANGED notTrackVars

TrackScreen2D ==
    /\ trackPoint # NoPoint
    /\ \E c \in Covariances, o \in TrackOracles :
          LET res == track(trackPoint, c, o)
          IN  /\ ~res.exit
              /\ trackPoint' = res.point
              /\ trackCall' = [made |-> TRUE, ret |-> res.ret, before |-> trackPoint,
                               stateCovariance |-> c, oracle |-> o]
    /\ UNCHANGED notTrackVars

TrackScreen ==
    /\ trackPoint # NoPoint
    /\ \E depthValid \in BOOLEAN, o \in TrackOracles :
          LET res == track_with_depth(trackPoint, depthValid, o)
          IN  /\ ~res.exit
              /\ trackPoint' = res.point
              /\ trackCall' = [made |-> TRUE, ret |-> res.ret, before |-> trackPoint,
                               stateCovariance |-> "covA", oracle |-> o]
    /\ UNCHANGED notTrackVars

----------------------------------------------------------------------------
(* The orientation histogram: Histogram.cpp *)

binPerCoordCount == 2       \* the argument of the constructor
binCount == binPerCoordCount * binPerCoordCount
Bins == 0 .. binCount - 1
Cells == 0 .. MaxCells - 1
NoBins == [i \in {} |-> 0]

\* The angles of a cell, already scaled to the bins of a coordinate and truncated
\* as the conversion to int does: x from theta, y from phi.
QuantisedAngles == [x : 0 .. binPerCoordCount - 1, y : 0 .. binPerCoordCount - 1]

\* Histogram::reset: every counter at 0, B emptied.
Histogram_reset == [H |-> [b \in Bins |-> 0], B |-> NoBins]

\* The bin of a cell in init_histogram: yQ stays 0 when xQ is 0.
binOf(angles) == (IF angles.x > 0 THEN angles.y ELSE 0) * binPerCoordCount + angles.x

\* Histogram::init_histogram(points, flags).
Histogram_init_histogram(H, points, flags) ==
    [H |-> [b \in Bins |->
              H[b] + Cardinality({i \in DOMAIN flags : flags[i] /\ binOf(points[i]) = b})],
     B |-> [i \in DOMAIN flags |-> IF flags[i] THEN binOf(points[i]) ELSE -1]]

\* Histogram::get_points_from_most_frequent_bin: the first bin whose counter is
\* the highest, when that counter is above 0, and the cells that B puts in it.
get_points_from_most_frequent_bin(H, B) ==
    LET above == {b \in Bins : H[b] > 0}
        most == {b \in above : \A other \in above : H[other] <= H[b]}
        mostFrequentBin == CHOOSE b \in most : \A other \in most : b <= other
    IN  IF above = {} THEN {}
        ELSE {i \in DOMAIN B : B[i] = mostFrequentBin}

\* A removal that forgets the counter.
remove_point_keeping_counter(H, B, pointId) == [H |-> H, B |-> [B EXCEPT ![pointId] = 1]]

\* Histogram::remove_point(pointId): H[B[pointId]] -= 1; B[pointId] = 1.
remove_point(H, B, pointId) ==
    [H |-> [H EXCEPT ![B[pointId]] = @ - 1],
     B |-> [B EXCEPT ![pointId] = 1]]

NoHistLog == [assigned |-> NoBins, removed |-> {}, removeCalls |-> 0,
              once |-> [cell |-> -1, H |-> NoBins, B |-> NoBins], twice |-> FALSE,
              asked |-> FALSE, answer |-> {}]

InitHistogram ==
    /\ histH = Histogram_reset.H
    /\ histB = Histogram_reset.B
    /\ histLog = NoHistLog

\* reset_data of the detector calls reset at the start of every frame.
HistReset ==
    /\ histB # NoBins
    /\ histH' = Histogram_reset.H
    /\ histB' = Histogram_reset.B
    /\ histLog' = NoHistLog
    /\ UNCHANGED notHistVars

\* init_histogram of the detector fills the histogram that reset emptied.
HistInit ==
    /\ histB = NoBins
    /\ \E points \in [Cells -> QuantisedAngles], flags \in [Cells -> BOOLEAN] :
          LET res == Histogram_init_histogram(histH, points, flags)
          IN  /\ histH' = res.H
              /\ histB' = res.B
              /\ histLog' = [NoHistLog EXCEPT !.assigned = res.B]
    /\ UNCHANGED notHistVars

\* remove_point on a cell that was inserted as planar.
HistRemove ==
    /\ histB # NoBins
    /\ histLog.removeCalls < MaxRemoveCalls
    /\ \E pointId \in {i \in Cells : histLog.assigned[i] # -1} :
          LET res == remove_point(histH, histB, pointId)
              again == histLog.once.cell = pointId
          IN  /\ histH' = res.H
              /\ histB' = res.B
              /\ histLog' = [histLog EXCEPT
                     !.removed = @ \cup {pointId},
                     !.removeCalls = @ + 1,
                     !.once = IF again THEN @
                              ELSE [cell |-> pointId, H |-> res.H, B |-> res.B],
                     !.twice = again,
                     !.asked = FALSE,
                     !.answer = {}]
    /\ UNCHANGED notHistVars

HistQuery ==
    /\ histB # NoBins
    /\ ~histLog.asked
    /\ histLog' = [histLog EXCEPT
           !.asked = TRUE,
           !.answer = get_points_from_most_frequent_bin(histH, histB),
           !.once = NoHistLog.once,
           !.twice = FALSE]
    /\ UNCHANGED <<histH, histB>>
    /\ UNCHANGED notHistVars

----------------------------------------------------------------------------
(* Pose_Optimization::compute_pose_variance, called with any iteration     *)
(* count.                                                                  *)

\* The sample covariance of lines 648-657 for n valid poses, 0.001 added on its
\* diagonal.  With no pose the zero matrix is divided by the wrapped size - 1 and
\* only the diagonal is left; with one pose 0 is divided by 0; with more poses the
\* matrix is well formed unless the poses spread badly.
sample_covariance(n, spread) ==
    IF n = 0 THEN "covA" ELSE IF n = 1 THEN "invalid" ELSE spread

NoVarianceCall == [made |-> FALSE]

InitVariance == varianceCall = NoVarianceCall

\* A call of compute_pose_variance: iterations runs of which poses gave a pose.
VarianceCompute ==
    /\ \E iterations \in 0..MaxVarianceIterations, poseCovariance \in Covariances,
          spread \in {"invalid", "covA", "covB"} :
        \E poses \in 0..iterations :
            LET r == compute_pose_variance(iterations,
                        [poses |-> poses, covariance |-> sample_covariance(poses, spread)])
            IN  varianceCall' = [made |-> TRUE, iterations |-> iterations, poses |-> poses,
                                 before |-> poseCovariance, ret |-> r.ok,
                                 poseCovariance |-> IF iterations = 0 THEN poseCovariance
                                                    ELSE r.poseCovariance]
    /\ UNCHANGED notVarianceVars

----------------------------------------------------------------------------
(* Primitive_Detection::find_primitives on a small grid of cells.  A cell  *)
(* of the cloud is "none" (not planar) or carries the class of its plane:  *)
(* two cells pass the angle and distance tests of region_growing and of    *)
(* merge_planes exactly when they are of the same class.                   *)

horizontalCellsCount == 3   \* _width / _cellWidth
verticalCellsCount == 3     \* _height / _cellHeight
cellWidth == 2              \* blocSize, the pixels on the side of a cell
totalCellCount == verticalCellsCount * horizontalCellsCount
GridCells == 0 .. totalCellCount - 1
minimumPlaneSeedCount == 6
minimumCellActivated == 5
cylinderCellThreshold == 5  \* cellActivatedCount > 5

Range(q) == {q[i] : i \in DOMAIN q}

Scenes ==
    [cells : {c \in [GridCells -> {"none", "a", "b"}] :
                 Cardinality({i \in GridCells : c[i] # "a"}) <= MaxOtherCells},
     angles : {[a |-> [x |-> 1, y |-> 0], b |-> [x |-> 1, y |-> 1]],
               [a |-> [x |-> 1, y |-> 1], b |-> [x |-> 1, y |-> 0]]}]

NoGridMap == [i \in GridCells |-> 0]
NoPassLog == [made |-> FALSE, stopped |-> FALSE, seedBin |-> -1, before |-> 0, after |-> 0,
              activated |-> <<>>, passes |-> 0]
NoPrimitives == [planes |-> <<>>, cylinders |-> <<>>]

InitDetection ==
    /\ detPc = "idle"
    /\ scene = [cells |-> [i \in GridCells |-> "none"],
                angles |-> [a |-> [x |-> 1, y |-> 0], b |-> [x |-> 1, y |-> 1]]]
    /\ detHistogram = Histogram_reset
    /\ isUnassignedMask = {}
    /\ untriedPlanarCellsCount = 0
    /\ gridPlaneSegmentMap = NoGridMap
    /\ gridCylinderSegMap = NoGridMap
    /\ planeSegments = 0
    /\ cylinder2regionMap = 0
    /\ detOutput = NoPrimitives
    /\ passLog = NoPassLog

\* region_growing(x, y, seedPlaneNormal, seedPlaneD, isActivatedMap): activated is the
\* list of the cells set to true in isActivatedMap, in the order they were set.
\* The neighbours on the right and below are bounded by the width and height
\* of the image in pixels, not by the number of cells.
RECURSIVE region_growing(_, _, _, _, _, _)
region_growing(x, y, seedClass, activated, cells, unassigned) ==
    LET index == x + horizontalCellsCount * y
    IN  IF index >= totalCellCount THEN activated
        ELSE IF index \notin unassigned \/ index \in Range(activated) THEN activated
        ELSE IF cells[index] # seedClass THEN activated
        ELSE LET here == Append(activated, index)
                 left == IF x > 0
                         THEN region_growing(x - 1, y, cells[index], here, cells, unassigned)
                         ELSE here
                 right == IF x < horizontalCellsCount * cellWidth - 1
                          THEN region_growing(x + 1, y, cells[index], left, cells, unassigned)
                          ELSE left
                 up == IF y > 0
                       THEN region_growing(x, y - 1, cells[index], right, cells, unassigned)
                       ELSE right
             IN  IF y < verticalCellsCount * cellWidth - 1
                 THEN region_growing(x, y + 1, cells[index], up, cells, unassigned)
                 ELSE up

\* The loop of grow_plane_segment_at_seed that removes the activated cells
\* from the histogram.
RECURSIVE remove_activated(_, _)
remove_activated(h, activated) ==
    IF activated = <<>> THEN h
    ELSE remove_activated(remove_point(h.H, h.B, Head(activated)), Tail(activated))

\* What Cylinder_Segment can make of the activated cells: one sub-segment with
\* all the cells, or two that share them; a sub-segment is kept as a plane or
\* as a cylinder, whichever has the lower MSE.
CylinderSegmentations(activated) ==
    LET all == Range(activated)
        first == {activated[i] : i \in 1 .. 3}
    IN  {<<[inliers |-> all, planeWins |-> w]>> : w \in BOOLEAN}
        \cup {<<[inliers |-> first, planeWins |-> TRUE],
                [inliers |-> all \ first, planeWins |-> w]>> : w \in BOOLEAN}

\* cylinder_fitting: g holds the two segment maps and the two counts.
RECURSIVE cylinder_fitting(_, _)
cylinder_fitting(g, segments) ==
    IF segments = <<>> THEN g
    ELSE LET seg == Head(segments)
             next ==
                 IF seg.inliers = {} THEN g
                 ELSE IF seg.planeWins
                 THEN [g EXCEPT !.planes = @ + 1,
                                !.planeMap = [i \in GridCells |->
                                                 IF i \in seg.inliers THEN g.planes + 1 ELSE @[i]]]
                 ELSE [g EXCEPT !.cylinders = @ + 1,
                                !.cylinderMap = [i \in GridCells |->
                                                    IF i \in seg.inliers THEN g.cylinders + 1
                                                    ELSE @[i]]]
         IN  cylinder_fitting(next, Tail(segments))

\* The outcomes of fit_plane and of Cylinder_Segment for a grown segment.
FitOutcomes(activated) ==
    IF Len(activated) < minimumCellActivated
    THEN {[isPlane |-> FALSE, segments |-> <<>>]}
    ELSE {[isPlane |-> TRUE, segments |-> <<>>]}
         \cup (IF Len(activated) > cylinderCellThreshold
               THEN {[isPlane |-> FALSE, segments |-> q] : q \in CylinderSegmentations(activated)}
               ELSE {[isPlane |-> FALSE, segments |-> <<>>]})

\* grow_plane_segment_at_seed(seedId, untriedPlanarCellsCount, cylinder2regionMap).
grow_plane_segment_at_seed(seedId, activated, fit) ==
    LET count == Len(activated)
        removed == remove_activated(detHistogram, activated)
        g == [planes |-> planeSegments, cylinders |-> cylinder2regionMap,
              planeMap |-> gridPlaneSegmentMap, cylinderMap |-> gridCylinderSegMap]
        kept == IF count = 0 \/ count < minimumCellActivated THEN g
                ELSE IF fit.isPlane
                THEN [g EXCEPT !.planes = @ + 1,
                               !.planeMap = [i \in GridCells |->
                                                IF i \in Range(activated) THEN g.planes + 1
                                                ELSE @[i]]]
                ELSE IF count > cylinderCellThreshold THEN cylinder_fitting(g, fit.segments)
                ELSE g
    IN  [histogram |-> IF count = 0 \/ count < minimumCellActivated
                       THEN remove_point(removed.H, removed.B, seedId)
                       ELSE removed,
         unassigned |-> isUnassignedMask \ Range(activated),
         untried |-> untriedPlanarCellsCount - count,
         g |-> kept]

\* The cells next to a cell under the 3 x 3 cross kernel; what lies outside the
\* image is ignored by dilate and erode.
CrossNeighbours(c) ==
    {n \in GridCells :
        \/ (n = c - 1 /\ c % horizontalCellsCount > 0)
        \/ (n = c + 1 /\ c % horizontalCellsCount < horizontalCellsCount - 1)
        \/ n = c - horizontalCellsCount
        \/ n = c + horizontalCellsCount}
dilate(mask) == {c \in GridCells : c \in mask \/ CrossNeighbours(c) \cap mask # {}}
erode(mask) == {c \in mask : CrossNeighbours(c) \subseteq mask}

\* get_connected_components_matrix: the last row and the last column of the
\* segment map are not scanned as the first cell of a pair.
isPlanesConnected(p, q) ==
    \E r \in 0 .. verticalCellsCount - 2, c \in 0 .. horizontalCellsCount - 2 :
        LET at == gridPlaneSegmentMap[r * horizontalCellsCount + c]
            nextTo == gridPlaneSegmentMap[r * horizontalCellsCount + c + 1]
            below == gridPlaneSegmentMap[(r + 1) * horizontalCellsCount + c]
        IN  /\ at > 0
            /\ \/ (at = p /\ (nextTo = q \/ below = q))
               \/ (at = q /\ (nextTo = p \/ below = p))

\* merge_planes: the labels after the rows from row on; mergeable is the result
\* of the angle and distance test.
RECURSIVE merge_planes(_, _, _)
merge_planes(row, labels, mergeable) ==
    IF row > planeSegments THEN labels
    ELSE merge_planes(row + 1,
            [col \in 1 .. planeSegments |->
                IF col > row /\ mergeable /\ isPlanesConnected(row, col)
                THEN labels[row] ELSE labels[col]],
            mergeable)

\* The mask of a primitive after the closing, and whether the primitive is kept.
closedMask(mask) == erode(dilate(mask))
isKept(mask) == erode(closedMask(mask)) # {} /\ erode(closedMask(mask)) # GridCells

RECURSIVE keptMasks(_, _)
keptMasks(masks, i) ==
    IF i > Len(masks) THEN <<>>
    ELSE (IF isKept(masks[i]) THEN <<closedMask(masks[i])>> ELSE <<>>) \o keptMasks(masks, i + 1)

\* add_planes_to_primitives: a plane that was merged in another one has an
\* empty mask of its own and is skipped.
add_planes_to_primitives(labels) ==
    keptMasks([p \in 1 .. planeSegments |->
                  IF labels[p] # p THEN {}
                  ELSE {i \in GridCells : gridPlaneSegmentMap[i] >= p /\ gridPlaneSegmentMap[i] > 0
                                          /\ labels[gridPlaneSegmentMap[i]] = labels[p]}], 1)

\* add_cylinders_to_primitives.
add_cylinders_to_primitives ==
    keptMasks([k \in 1 .. cylinder2regionMap |-> {i \in GridCells : gridCylinderSegMap[i] = k}], 1)

\* reset_data, the first step of find_primitives.
DetectReset ==
    /\ detPc \in {"idle", "done"}
    /\ detPc' = "reset"
    /\ scene' = [cells |-> [i \in GridCells |-> "none"],
                 angles |-> [a |-> [x |-> 1, y |-> 0], b |-> [x |-> 1, y |-> 1]]]
    /\ detHistogram' = Histogram_reset
    /\ isUnassignedMask' = {}
    /\ untriedPlanarCellsCount' = 0
    /\ gridPlaneSegmentMap' = NoGridMap
    /\ gridCylinderSegMap' = NoGridMap
    /\ planeSegments' = 0
    /\ cylinder2regionMap' = 0
    /\ detOutput' = NoPrimitives
    /\ passLog' = NoPassLog
    /\ UNCHANGED notDetVars

\* init_planar_cell_fitting and init_histogram on the cloud of this frame.
DetectInit ==
    /\ detPc = "reset"
    /\ \E cloud \in Scenes :
          LET planar == {i \in GridCells : cloud.cells[i] # "none"}
              histBins == [i \in GridCells |->
                              IF cloud.cells[i] = "b" THEN cloud.angles.b ELSE cloud.angles.a]
          IN  /\ scene' = cloud
              /\ isUnassignedMask' = planar
              /\ untriedPlanarCellsCount' = Cardinality(planar)
              /\ detHistogram' = Histogram_init_histogram(detHistogram.H, histBins,
                                                          [i \in GridCells |-> i \in planar])
    /\ detPc' = "grow"
    /\ UNCHANGED <<gridPlaneSegmentMap, gridCylinderSegMap, planeSegments, cylinder2regionMap,
                   detOutput, passLog>>
    /\ UNCHANGED notDetVars

\* One pass of the loop of grow_planes_and_cylinders; the seed is the candidate
\* of lowest MSE: the first one when the MSE grows with the index of the cell,
\* the last one when it decreases.
DetectPass ==
    /\ detPc = "grow"
    /\ LET seedCandidates == get_points_from_most_frequent_bin(detHistogram.H, detHistogram.B)
       IN  IF untriedPlanarCellsCount = 0
              \/ Cardinality(seedCandidates) < minimumPlaneSeedCount
           THEN /\ detPc' = "merge"
                /\ passLog' = [passLog EXCEPT !.made = TRUE, !.stopped = TRUE]
                /\ UNCHANGED <<detHistogram, isUnassignedMask, untriedPlanarCellsCount,
                               gridPlaneSegmentMap, gridCylinderSegMap, planeSegments,
                               cylinder2regionMap>>
           ELSE \E seedId \in {i \in seedCandidates :
                                  \/ \A other \in seedCandidates : i <= other
                                  \/ \A other \in seedCandidates : other <= i} :
                  LET activated ==
                          IF scene.cells[seedId] = "none" THEN <<>>
                          ELSE region_growing(seedId % horizontalCellsCount,
                                              seedId \div horizontalCellsCount,
                                              scene.cells[seedId], <<>>, scene.cells,
                                              isUnassignedMask)
                  IN  \E fit \in FitOutcomes(activated) :
                        LET res == grow_plane_segment_at_seed(seedId, activated, fit)
                            seedBin == detHistogram.B[seedId]
                        IN  /\ detHistogram' = res.histogram
                            /\ isUnassignedMask' = res.unassigned
                            /\ untriedPlanarCellsCount' = res.untried
                            /\ gridPlaneSegmentMap' = res.g.planeMap
                            /\ gridCylinderSegMap' = res.g.cylinderMap
                            /\ planeSegments' = res.g.planes
                            /\ cylinder2regionMap' = res.g.cylinders
                            /\ passLog' = [made |-> TRUE, stopped |-> FALSE, seedBin |-> seedBin,
                                           before |-> detHistogram.H[seedBin],
                                           after |-> res.histogram.H[seedBin],
                                           activated |-> activated,
                                           passes |-> passLog.passes + 1]
                            /\ detPc' = "grow"
    /\ UNCHANGED <<scene, detOutput>>
    /\ UNCHANGED notDetVars

\* merge_planes, add_planes_to_primitives and add_cylinders_to_primitives.
DetectFinish ==
    /\ detPc = "merge"
    /\ \E mergeable \in BOOLEAN :
          detOutput' = [planes |-> add_planes_to_primitives(
                                      merge_planes(1, [p \in 1 .. planeSegments |-> p], mergeable)),
                       cylinders |-> add_cylinders_to_primitives]
    /\ detPc' = "done"
    /\ UNCHANGED <<scene, detHistogram, isUnassignedMask, untriedPlanarCellsCount,
                   gridPlaneSegmentMap, gridCylinderSegMap, planeSegments, cylinder2regionMap,
                   passLog>>
    /\ UNCHANGED notDetVars

----------------------------------------------------------------------------
(* The parallel_for of compute_pose_variance (MAKE_DETERMINISTIC not       *)
(* defined): one task per iteration.  The 6-vector that task t obtains is  *)
(* the number t; medium += and emplace_back are steps of their own, the    *)
(* first one a read followed by a write.                                   *)

Tasks == 1..MaxTasks
NoTask == 0

\* A variant of the mutex that lets every task in.
lock_without_exclusion(holder) == TRUE

\* std::scoped_lock<std::mutex> lock(mut) goes on when no task holds mut.
scoped_lock_can_enter(holder) == holder = NoTask

\* newPose.get_vector() of task t
pose6dof(t) == t

InitMonteCarlo ==
    /\ mcStage = "idle"
    /\ mcIterations = 0
    /\ taskPc = [t \in Tasks |-> "off"]
    /\ taskLocal = [t \in Tasks |-> 0]
    /\ taskOutcome = [t \in Tasks |-> "none"]
    /\ mcMutex = NoTask
    /\ mcMedium = 0
    /\ mcPoses = <<>>

\* The call up to tbb::parallel_for: the test of iterations, setZero, reserve.
McFork ==
    /\ mcStage = "idle"
    /\ \E iterations \in 0..MaxTasks :
        /\ mcIterations' = iterations
        /\ mcStage' = IF iterations = 0 THEN "returned" ELSE "forked"
        /\ taskPc' = [t \in Tasks |-> IF t <= iterations THEN "run" ELSE "off"]
    /\ mcMedium' = 0
    /\ mcPoses' = <<>>
    /\ UNCHANGED <<taskLocal, taskOutcome, mcMutex>>
    /\ UNCHANGED notMcVars

\* compute_random_variation_of_pose of task t: a pose, or the warning of a failure.
TaskOptimize(t) ==
    /\ taskPc[t] = "run"
    /\ \E ok \in BOOLEAN :
        /\ taskPc' = [taskPc EXCEPT ![t] = IF ok THEN "lock" ELSE "done"]
        /\ taskOutcome' = [taskOutcome EXCEPT ![t] = IF ok THEN "ok" ELSE "failed"]
    /\ UNCHANGED <<mcStage, mcIterations, taskLocal, mcMutex, mcMedium, mcPoses>>
    /\ UNCHANGED notMcVars

\* std::scoped_lock<std::mutex> lock(mut)
TaskLock(t) ==
    /\ taskPc[t] = "lock"
    /\ scoped_lock_can_enter(mcMutex)
    /\ mcMutex' = t
    /\ taskPc' = [taskPc EXCEPT ![t] = "read"]
    /\ UNCHANGED <<mcStage, mcIterations, taskLocal, taskOutcome, mcMedium, mcPoses>>
    /\ UNCHANGED notMcVars

\* medium += pose6dof, the read of medium
TaskReadMedium(t) ==
    /\ taskPc[t] = "read"
    /\ taskLocal' = [taskLocal EXCEPT ![t] = mcMedium]
    /\ taskPc' = [taskPc EXCEPT ![t] = "write"]
    /\ UNCHANGED <<mcStage, mcIterations, taskOutcome, mcMutex, mcMedium, mcPoses>>
    /\ UNCHANGED notMcVars

\* medium += pose6dof, the write of medium
TaskWriteMedium(t) ==
    /\ taskPc[t] = "write"
    /\ mcMedium' = taskLocal[t] + pose6dof(t)
    /\ taskPc' = [taskPc EXCEPT ![t] = "append"]
    /\ UNCHANGED <<mcStage, mcIterations, taskLocal, taskOutcome, mcMutex, mcPoses>>
    /\ UNCHANGED notMcVars

\* poses.emplace_back(pose6dof)
TaskAppend(t) ==
    /\ taskPc[t] = "append"
    /\ mcPoses' = Append(mcPoses, pose6dof(t))
    /\ taskPc' = [taskPc EXCEPT ![t] = "unlock"]
    /\ UNCHANGED <<mcStage, mcIterations, taskLocal, taskOutcome, mcMutex, mcMedium>>
    /\ UNCHANGED notMcVars

\* The end of the block of the lock: mut is released.
TaskUnlock(t) ==
    /\ taskPc[t] = "unlock"
    /\ mcMutex' = NoTask
    /\ taskPc' = [taskPc EXCEPT ![t] = "done"]
    /\ UNCHANGED <<mcStage, mcIterations, taskLocal, taskOutcome, mcMedium, mcPoses>>
    /\ UNCHANGED notMcVars

\* parallel_for returns once every task is over.
McJoin ==
    /\ mcStage = "forked"
    /\ \A t \in Tasks : taskPc[t] \in {"off", "done"}
    /\ mcStage' = "joined"
    /\ UNCHANGED <<mcIterations, taskPc, taskLocal, taskOutcome, mcMutex, mcMedium, mcPoses>>
    /\ UNCHANGED notMcVars

----------------------------------------------------------------------------
(* RGBD_SLAM::detect_features: the three std::async tasks of a frame, the  *)
(* get() of each of them, then find_feature_matches.  The body of a task   *)
(* is the list of what it reads and writes, in order.                      *)

Handlers == {"kpHandler", "planeHandler", "lineHandler"}

Access(kind, name) == [kind |-> kind, name |-> name]

\* The lambdas of detect_features; USE_LINE_DETECTION is not defined and the line
\* task only returns an empty container.
HandlerBody(h) ==
    CASE h = "kpHandler" ->
            <<Access("read", "_isTrackingLost"), Access("read", "_computeKeypointCount"),
              Access("read", "predictedPose"), Access("read", "_localMap"),
              Access("read", "grayImage"), Access("read", "depthImage"),
              Access("write", "_pointDetector")>>
      [] h = "planeHandler" ->
            <<Access("read", "cloudArrayOrganized"), Access("read", "depthImage"),
              Access("write", "_primitiveDetector"),
              Access("read", "_meanPrimitiveTreatmentDuration"),
              Access("write", "_meanPrimitiveTreatmentDuration")>>
      [] OTHER -> <<>>

\* A variant of the join that does not wait for the plane task.
get_returns_without_planes(states) ==
    \A h \in Handlers \ {"planeHandler"} : states[h] = "done"

\* kpHandler.get(), lineHandler.get() and planeHandler.get() have all returned.
handlers_get_returns(states) == \A h \in Handlers : states[h] = "done"

InitDetectTasks ==
    /\ frameStage = "idle"
    /\ handlerState = [h \in Handlers |-> "idle"]
    /\ handlerPos = [h \in Handlers |-> 0]
    /\ handlerReads = [h \in Handlers |-> {}]
    /\ handlerWrites = [h \in Handlers |-> {}]
    /\ matchingStartLog = {}

\* compute_new_pose calls detect_features, which starts the three tasks.  The line
\* task has the default launch policy and may be deferred to its get().
DetectLaunch ==
    /\ frameStage \in {"idle", "matching"}
    /\ frameStage' = "detecting"
    /\ \E lineState \in {"running", "deferred"} :
        handlerState' = [h \in Handlers |-> IF h = "lineHandler" THEN lineState ELSE "running"]
    /\ handlerPos' = [h \in Handlers |-> 0]
    /\ handlerReads' = [h \in Handlers |-> {}]
    /\ handlerWrites' = [h \in Handlers |-> {}]
    /\ matchingStartLog' = {}
    /\ UNCHANGED notDetectVars

\* lineHandler.get() runs a deferred task in the calling thread.
HandlerGetDeferred(h) ==
    /\ frameStage = "detecting"
    /\ handlerState[h] = "deferred"
    /\ handlerState' = [handlerState EXCEPT ![h] = "running"]
    /\ UNCHANGED <<frameStage, handlerPos, handlerReads, handlerWrites, matchingStartLog>>
    /\ UNCHANGED notDetectVars

\* The next read or write of a running task.
HandlerStep(h) ==
    /\ handlerState[h] = "running"
    /\ handlerPos[h] < Len(HandlerBody(h))
    /\ LET access == HandlerBody(h)[handlerPos[h] + 1]
       IN  /\ handlerReads' = IF access.kind = "read"
                              THEN [handlerReads EXCEPT ![h] = @ \cup {access.name}]
                              ELSE handlerReads
           /\ handlerWrites' = IF access.kind = "write"
                               THEN [handlerWrites EXCEPT ![h] = @ \cup {access.name}]
                               ELSE handlerWrites
    /\ handlerPos' = [handlerPos EXCEPT ![h] = @ + 1]
    /\ UNCHANGED <<frameStage, handlerState, matchingStartLog>>
    /\ UNCHANGED notDetectVars

\* The return of the lambda of a task.
HandlerReturn(h) ==
    /\ handlerState[h] = "running"
    /\ handlerPos[h] = Len(HandlerBody(h))
    /\ handlerState' = [handlerState EXCEPT ![h] = "done"]
    /\ UNCHANGED <<frameStage, handlerPos, handlerReads, handlerWrites, matchingStartLog>>
    /\ UNCHANGED notDetectVars

\* detect_features returns and compute_new_pose calls find_feature_matches.
FindFeatureMatches ==
    /\ frameStage = "detecting"
    /\ handlers_get_returns(handlerState)
    /\ frameStage' = "matching"
    /\ matchingStartLog' = {h \in Handlers : handlerState[h] = "done"}
    /\ UNCHANGED <<handlerState, handlerPos, handlerReads, handlerWrites>>
    /\ UNCHANGED notDetectVars


---------------------------------------------------------------------------------
\* Primitive_Detection::region_growing on planes that differ by degrees.
\*
\* A cell's plane is kept as the direction of its normal (angle, in steps) and the
\* signed distance of its centroid along that direction (offset).  The products
\* of the code are taken from these: normals one step apart meet the merge
\* cosine exactly, two steps apart fall below it; a centroid two units off a plane
\* meets the cell's tolerance exactly.

\* seedPlaneNormal.dot(secPlaneNormal), in quarters.
normalDot(seedPlane, secPlane) ==
    LET steps == IF seedPlane.angle < secPlane.angle
                 THEN secPlane.angle - seedPlane.angle
                 ELSE seedPlane.angle - secPlane.angle
    IN  IF steps = 0 THEN 4 ELSE IF steps = 1 THEN 3 ELSE 1

\* _minCosAngleForMerge, in quarters.
minCosAngleForMerge == 3

\* pow(seedPlaneNormal.dot(secPlaneMean) + seedPlaneD, 2.0)
squaredDistance(seedPlane, secPlane) ==
    (secPlane.offset - seedPlane.offset) * (secPlane.offset - seedPlane.offset)

\* _cellDistanceTols[index]: the same for every planar cell of these grids.
cellDistanceTol == 4

\* The test with the bounds excluded.
passes_merge_tests_strictly(seedPlane, secPlane) ==
    /\ normalDot(seedPlane, secPlane) > minCosAngleForMerge
    /\ squaredDistance(seedPlane, secPlane) < cellDistanceTol

\* The test of region_growing: the cell is left out when the cosine is below
\* _minCosAngleForMerge or the squared distance above the cell's tolerance.
passes_merge_tests(seedPlane, secPlane) ==
    ~ (\/ normalDot(seedPlane, secPlane) < minCosAngleForMerge
       \/ squaredDistance(seedPlane, secPlane) > cellDistanceTol)

\* The planes of a grid: one main plane, and the planes a cell may have instead.
\* A cell that is not unassigned is non planar or already in a plane segment.
MainPlane == [unassigned |-> TRUE, angle |-> 1, offset |-> 0]
OddPlanes ==
    { [unassigned |-> FALSE, angle |-> 1, offset |-> 0],
      [unassigned |-> TRUE, angle |-> 0, offset |-> 0],
      [unassigned |-> TRUE, angle |-> 2, offset |-> 0],
      [unassigned |-> TRUE, angle |-> 1, offset |-> 2] }
OddCellSets == {odd \in SUBSET GridCells : Cardinality(odd) <= MaxOddCells}
PlaneGrids ==
    UNION { { [i \in GridCells |-> IF i \in odd THEN planes[i] ELSE MainPlane] :
                planes \in [odd -> OddPlanes] } : odd \in OddCellSets }

\* The four recursive calls of region_growing, in the order of the code, and the
\* other order a growth is compared with.
CodeOrder == <<"left", "right", "up", "down">>
VisitOrders == {CodeOrder, <<"down", "up", "right", "left">>}

\* The plane of the seed handed on unchanged.
seed_plane_passed_on(seedPlane, secPlane) == seedPlane

\* The plane handed to the four recursive calls: secPlaneNormal and secPlaneD,
\* the plane of the cell just activated.
plane_passed_on(seedPlane, secPlane) == secPlane

NoGrowth == [activated |-> <<>>, visits |-> <<>>]

\* region_growing(x, y, seedPlaneNormal, seedPlaneD, isActivatedMap).  seedPlane
\* is the plane the call received, caller the cell whose call it is (the seed
\* for the first call); growth holds isActivatedMap as the sequence of activated
\* cells and, for the record, every visit of a cell of the grid: who called,
\* which cell, and whether the call activated it.
RECURSIVE region_growing_in_order(_, _, _, _, _, _, _)
RECURSIVE call_neighbour(_, _, _, _, _, _, _)
region_growing_in_order(x, y, caller, seedPlane, growth, planeGrid, order) ==
    LET index == x + horizontalCellsCount * y
    IN  IF index >= totalCellCount THEN growth
        ELSE LET merged ==
                    /\ planeGrid[index].unassigned
                    /\ index \notin Range(growth.activated)
                    /\ passes_merge_tests(seedPlane, planeGrid[index])
                 visits == Append(growth.visits,
                               [caller |-> caller, index |-> index, merged |-> merged])
             IN  IF ~ merged THEN [activated |-> growth.activated, visits |-> visits]
                 ELSE LET passed == plane_passed_on(seedPlane, planeGrid[index])
                          here == [activated |-> Append(growth.activated, index),
                                   visits |-> visits]
                          first == call_neighbour(order[1], x, y, passed, here,
                                                  planeGrid, order)
                          second == call_neighbour(order[2], x, y, passed, first,
                                                   planeGrid, order)
                          third == call_neighbour(order[3], x, y, passed, second,
                                                  planeGrid, order)
                      IN  call_neighbour(order[4], x, y, passed, third, planeGrid, order)

\* One of the four recursive calls made from cell (x, y), each under its test on
\* x or y against the width or height of the image.
call_neighbour(direction, x, y, passed, growth, planeGrid, order) ==
    LET index == x + horizontalCellsCount * y
    IN  CASE direction = "left" ->
               IF x > 0
               THEN region_growing_in_order(x - 1, y, index, passed, growth,
                                            planeGrid, order)
               ELSE growth
          [] direction = "right" ->
               IF x < horizontalCellsCount * cellWidth - 1
               THEN region_growing_in_order(x + 1, y, index, passed, growth,
                                            planeGrid, order)
               ELSE growth
          [] direction = "up" ->
               IF y > 0
               THEN region_growing_in_order(x, y - 1, index, passed, growth,
                                            planeGrid, order)
               ELSE growth
          [] OTHER ->
               IF y < verticalCellsCount * cellWidth - 1
               THEN region_growing_in_order(x, y + 1, index, passed, growth,
                                            planeGrid, order)
               ELSE growth

\* grow_plane_segment_at_seed up to the end of the growth: nothing for a seed
\* that is not planar, else region_growing from the seed's cell with the plane
\* of the seed.
grow_from_seed(planeGrid, seedId, order) ==
    IF ~ planeGrid[seedId].unassigned THEN NoGrowth
    ELSE region_growing_in_order(seedId % horizontalCellsCount,
                                 seedId \div horizontalCellsCount,
                                 seedId, planeGrid[seedId], NoGrowth, planeGrid, order)

InitGrowing ==
    /\ growGrid = [i \in GridCells |-> MainPlane]
    /\ growSeed = 0
    /\ growOrder = CodeOrder
    /\ growResult = NoGrowth
    /\ growStage = "idle"

\* One growth: a grid, a seed and a visiting order.
GrowFromSeed ==
    /\ growStage = "idle"
    /\ \E planeGrid \in PlaneGrids, seedId \in GridCells, order \in VisitOrders :
        /\ growGrid' = planeGrid
        /\ growSeed' = seedId
        /\ growOrder' = order
        /\ growResult' = grow_from_seed(planeGrid, seedId, order)
    /\ growStage' = "grown"
    /\ UNCHANGED notGrowVars

\* The next frame: find_primitives clears the grid and the activation map.
GrowReset ==
    /\ growStage = "grown"
    /\ growGrid' = [i \in GridCells |-> MainPlane]
    /\ growSeed' = 0
    /\ growOrder' = CodeOrder
    /\ growResult' = NoGrowth
    /\ growStage' = "idle"
    /\ UNCHANGED notGrowVars

NextGrowing == GrowFromSeed \/ GrowReset


---------------------------------------------------------------------------------
\* Primitive_Detection::merge_planes on plane segments that differ by degrees.
\* Segments are numbered from 0 as in the code.  A segment is kept as the plane
\* fitted to it (angle and offset as for the cells) and is_planar.

\* _maxMergeDist
maxMergeDist == 3

\* The test of merge_planes with the distance bound squared.
passes_plane_merge_tests_squared(testPlane, mergePlane) ==
    /\ normalDot(testPlane, mergePlane) > minCosAngleForMerge
    /\ squaredDistance(testPlane, mergePlane) < maxMergeDist * maxMergeDist

\* cosAngle > _minCosAngleForMerge and distance < _maxMergeDist, where distance
\* is pow(testPlaneNormal.dot(mergePlaneMean) + testPlane.get_plane_d(), 2).
passes_plane_merge_tests(testPlane, mergePlane) ==
    /\ normalDot(testPlane, mergePlane) > minCosAngleForMerge
    /\ squaredDistance(testPlane, mergePlane) < maxMergeDist

SegmentPlanes ==
    { [planar |-> FALSE, angle |-> 1, offset |-> 0],
      [planar |-> TRUE, angle |-> 1, offset |-> 0],
      [planar |-> TRUE, angle |-> 1, offset |-> 1],
      [planar |-> TRUE, angle |-> 1, offset |-> 2],
      [planar |-> TRUE, angle |-> 0, offset |-> 0] }

SegmentPairs(planeCount) ==
    {pair \in (0 .. planeCount - 1) \X (0 .. planeCount - 1) : pair[1] < pair[2]}

\* isPlanesConnectedMatrix is symmetric: a pair stands for both of its entries.
isPlanesConnectedMatrix(connected, row, col) ==
    <<row, col>> \in connected \/ <<col, row>> \in connected

\* The loop over col of one row.  merging.moments[p] lists the segments whose
\* moments expand_segment has added to segment p, its own first; merging.tested
\* records every pair that reached the test.
RECURSIVE merge_planes_cols(_, _, _, _, _)
merge_planes_cols(row, col, planeId, merging, segments) ==
    IF col >= Len(merging.labels) THEN merging
    ELSE IF ~ isPlanesConnectedMatrix(merging.connected, row, col)
              \/ ~ segments[col + 1].planar
         THEN merge_planes_cols(row, col + 1, planeId, merging, segments)
         ELSE LET merged == passes_plane_merge_tests(segments[planeId + 1],
                                                     segments[col + 1])
                  tested == Append(merging.tested,
                               [row |-> row, col |-> col, planeId |-> planeId,
                                merged |-> merged])
              IN  IF merged
                  THEN merge_planes_cols(row, col + 1, planeId,
                           [labels |-> [merging.labels EXCEPT ![col + 1] = planeId],
                            moments |-> [merging.moments EXCEPT ![planeId + 1] =
                                            @ \o merging.moments[col + 1]],
                            connected |-> merging.connected,
                            tested |-> tested],
                           segments)
                  ELSE merge_planes_cols(row, col + 1, planeId,
                           [labels |-> merging.labels,
                            moments |-> merging.moments,
                            connected |-> merging.connected \ {<<row, col>>, <<col, row>>},
                            tested |-> tested],
                           segments)

\* The loop over row.  fit_plane of an expanded segment is taken to give its
\* plane back.
RECURSIVE merge_planes_rows(_, _, _)
merge_planes_rows(row, merging, segments) ==
    IF row >= Len(merging.labels) THEN merging
    ELSE LET planeId == merging.labels[row + 1]
         IN  IF ~ segments[planeId + 1].planar
             THEN merge_planes_rows(row + 1, merging, segments)
             ELSE merge_planes_rows(row + 1,
                      merge_planes_cols(row, row + 1, planeId, merging, segments),
                      segments)

\* merge_planes: planeMergeLabels[p] is kept at place p + 1 of labels.
merge_planes_of(segments, connected) ==
    merge_planes_rows(0,
        [labels |-> [p \in 1 .. Len(segments) |-> p - 1],
         moments |-> [p \in 1 .. Len(segments) |-> <<p - 1>>],
         connected |-> connected,
         tested |-> <<>>],
        segments)

NoMerging == [labels |-> <<>>, moments |-> <<>>, connected |-> {}, tested |-> <<>>]

InitMerging ==
    /\ mergeSegments = <<>>
    /\ mergeConnected = {}
    /\ mergeResult = NoMerging
    /\ mergeStage = "idle"

\* One call of merge_planes on the segments of a frame.
MergePlanes ==
    /\ mergeStage = "idle"
    /\ \E planeCount \in 0 .. MaxSegments :
         \E segments \in [1 .. planeCount -> SegmentPlanes],
            connected \in SUBSET SegmentPairs(planeCount) :
            /\ mergeSegments' = segments
            /\ mergeConnected' = connected
            /\ mergeResult' = merge_planes_of(segments, connected)
    /\ mergeStage' = "merged"
    /\ UNCHANGED notMergeVars

\* The next frame: reset_data clears the segments.
MergeReset ==
    /\ mergeStage = "merged"
    /\ mergeSegments' = <<>>
    /\ mergeConnected' = {}
    /\ mergeResult' = NoMerging
    /\ mergeStage' = "idle"
    /\ UNCHANGED notMergeVars

NextMerging == MergePlanes \/ MergeReset


---------------------------------------------------------------------------------
\* MapPoint2D::find_matches (map_features/map_point2d.cpp) and the older
\* MapPoint2D::find_match (map_point2d.cpp) on the keypoints of one frame.
\* DetectedKeypointsObject is not in the sources: a keypoint lies within the
\* search radius of the projected point ("near"), within twice the radius
\* ("far") or further ("out"), and get_match_indexes returns those in range.

INVALID_MATCH_INDEX == -1
UNMATCHED_FEATURE_INDEX == -1

KeypointIndexes == 0 .. MaxKeypoints - 1
KeypointPlaces == [KeypointIndexes -> {"near", "far", "out"}]

\* get_match_indexes(screenCoordinates, _descriptor, isDetectedFeatureMatched,
\* searchRadius); the radius is doubled by useAdvancedSearch.
get_match_indexes(places, useAdvancedSearch) ==
    {i \in KeypointIndexes : places[i] = "near" \/ (useAdvancedSearch /\ places[i] = "far")}

\* get_match_index: one keypoint in range, or none.
get_match_index(places, useAdvancedSearch) ==
    IF get_match_indexes(places, useAdvancedSearch) = {} THEN INVALID_MATCH_INDEX
    ELSE CHOOSE i \in get_match_indexes(places, useAdvancedSearch) :
             \A j \in get_match_indexes(places, useAdvancedSearch) : i <= j

\* MapPoint2D::find_matches.  trackingIndex is what get_tracking_match_index
\* returned, projects whether the point has screen coordinates; matches are the
\* keypoints of the matches pushed to the container.
find_matches(trackingIndex, projects, places, shouldAddToMatches, useAdvancedSearch) ==
    LET matchIndexRes ==
            IF trackingIndex = INVALID_MATCH_INDEX /\ projects
            THEN get_match_indexes(places, useAdvancedSearch)
            ELSE {}
    IN  IF trackingIndex = INVALID_MATCH_INDEX
        THEN [matches |-> {}, ret |-> matchIndexRes]
        ELSE [matches |-> IF shouldAddToMatches THEN matchIndexRes ELSE {},
              ret |-> matchIndexRes]

\* MapPoint2D::find_match: one index, UNMATCHED_FEATURE_INDEX for none.
find_match(trackingIndex, projects, places, shouldAddToMatches, useAdvancedSearch) ==
    LET matchIndex ==
            IF trackingIndex # INVALID_MATCH_INDEX THEN trackingIndex
            ELSE IF projects THEN get_match_index(places, useAdvancedSearch)
            ELSE INVALID_MATCH_INDEX
    IN  IF matchIndex = INVALID_MATCH_INDEX
        THEN [matches |-> {}, ret |-> {}]
        ELSE [matches |-> IF shouldAddToMatches THEN {matchIndex} ELSE {},
              ret |-> {matchIndex}]

NoFindCall == [called |-> "none"]

InitMatching == findCall = NoFindCall

FindInputs ==
    [trackingIndex : {INVALID_MATCH_INDEX} \cup KeypointIndexes, projects : BOOLEAN,
     places : KeypointPlaces, shouldAddToMatches : BOOLEAN, useAdvancedSearch : BOOLEAN]

\* A call of find_matches on a 2D point of the map.
FindMatches ==
    /\ \E in \in FindInputs :
          findCall' = [called |-> "find_matches", in |-> in,
                       out |-> find_matches(in.trackingIndex, in.projects, in.places,
                                            in.shouldAddToMatches, in.useAdvancedSearch)]
    /\ UNCHANGED notMatchVars

\* A call of find_match on a 2D point of the map.
FindMatch ==
    /\ \E in \in FindInputs :
          findCall' = [called |-> "find_match", in |-> in,
                       out |-> find_match(in.trackingIndex, in.projects, in.places,
                                          in.shouldAddToMatches, in.useAdvancedSearch)]
    /\ UNCHANGED notMatchVars

NextMatching == FindMatches \/ FindMatch

Init ==
    /\ InitEngine /\ InitRansac /\ InitPoints /\ InitIds /\ InitTrack /\ InitHistogram
    /\ InitDetection /\ InitVariance /\ InitMonteCarlo /\ InitDetectTasks /\ InitGrowing /\ InitMerging /\ InitMatching

Next == ComputePose \/ UpdateMap

Spec == Init /\ [][Next]_vars

NextRansac == RansacStart \/ RansacIterate \/ RansacFinal \/ RansacVariance

SpecRansac == Init /\ [][NextRansac]_vars

NextPoints ==
    StagedMatched \/ StagedUnmatched \/ StagedLeaves \/ LocalMatched \/ LocalUnmatched \/ LocalLost

SpecPoints == Init /\ [][NextPoints]_vars

NextIds == CreateStagedPoint \/ CreatePrimitive \/ PromoteStagedPoint

SpecIds == Init /\ [][NextIds]_vars

NextTrack == TrackConstruct \/ TrackScreen2D \/ TrackScreen

SpecTrack == Init /\ [][NextTrack]_vars

NextHistogram == HistReset \/ HistInit \/ HistRemove \/ HistQuery

SpecHistogram == Init /\ [][NextHistogram]_vars

NextDetection == DetectReset \/ DetectInit \/ DetectPass \/ DetectFinish

SpecDetection == Init /\ [][NextDetection]_vars

NextVariance == VarianceCompute

SpecVariance == Init /\ [][NextVariance]_vars

NextMonteCarlo ==
    \/ McFork
    \/ McJoin
    \/ \E t \in Tasks : TaskOptimize(t)
    \/ \E t \in Tasks : TaskLock(t)
    \/ \E t \in Tasks : TaskReadMedium(t)
    \/ \E t \in Tasks : TaskWriteMedium(t)
    \/ \E t \in Tasks : TaskAppend(t)
    \/ \E t \in Tasks : TaskUnlock(t)

SpecMonteCarlo == Init /\ [][NextMonteCarlo]_vars

NextDetectTasks ==
    \/ DetectLaunch
    \/ FindFeatureMatches
    \/ \E h \in Handlers : HandlerGetDeferred(h)
    \/ \E h \in Handlers : HandlerStep(h)
    \/ \E h \in Handlers : HandlerReturn(h)

SpecDetectTasks == Init /\ [][NextDetectTasks]_vars

SpecGrowing == Init /\ [][NextGrowing]_vars

SpecMerging == Init /\ [][NextMerging]_vars

SpecMatching == Init /\ [][NextMatching]_vars

----------------------------------------------------------------------------
(* Properties of the pose optimisation *)

\* C6: when the sum over the feature kinds of count / minimum is below 1, the call
\* ends without a single iteration of the loop, compute_pose_with_ransac and
\* compute_optimized_pose return false, and the output pose and the pose of the
\* caller are as they were.
C6_TooFewFeaturesReturnsEarly ==
    (rpc # "idle" /\ featureScoreOfAllKinds(matchedFeatures) < ScoreOne) =>
        /\ rpc = "done"
        /\ ~ransacRet /\ ~optimizedRet
        /\ iterationsRun = 0 /\ finalLm = "none"
        /\ finalPose = outBefore
        /\ callerPose = Pose("p0", "covA")

C6_Witness ==
    /\ rpc = "done" /\ featureScoreOfAllKinds(matchedFeatures) < ScoreOne
    /\ matchedFeatures.planes > 0 /\ matchedFeatures.points > 0
    /\ outBefore # DefaultPose

\* The loop of compute_pose_with_ransac found a valid inlier set and the final
\* optimisation over it failed.
FinalPassFailed == rpc = "done" /\ finalLm = "failed"

\* C7 as stated: when the final optimisation fails after the loop found a valid
\* inlier set, compute_pose_with_ransac reports success with the best candidate
\* pose of the loop.
C7_FailedFinalPassReturnsBest ==
    FinalPassFailed => (ransacRet /\ finalPose.p = bestPose)

\* C7, amended: in that case compute_pose_with_ransac returns false and leaves the
\* output pose as it was, and compute_optimized_pose returns false.
C7_FailedFinalPassReturnsFalse ==
    FinalPassFailed =>
        /\ inlierScoreOf(featureSets) >= ScoreOne
        /\ ~ransacRet /\ ~optimizedRet
        /\ finalPose = outBefore

C7_Witness ==
    FinalPassFailed /\ bestPose = "p1" /\ outBefore # DefaultPose /\ finalPose.p # bestPose

\* C8: whenever compute_optimized_pose returns true, featureSets holds the inliers
\* and the outliers of the matched features under the returned pose.
C8_SetsBelongToFinalPose ==
    (rpc = "done" /\ optimizedRet) =>
        featureSets = get_features_inliers_outliers(matchedFeatures, finalPose.p, EmptySets).sets

----------------------------------------------------------------------------
(* Properties of the map points *)

\* C9: for a staged point with any value of its counter, with
\* confidence = clamp(counter / pointStagedAgeConfidence, -1, 1):
\* should_add_to_local_map holds iff confidence > pointMinimumConfidenceForMap,
\* should_remove_from_staged holds iff confidence <= 0, and the two never hold
\* together.  The confidence is compared as a fraction, cross-multiplied.
C9_StagedDecisions ==
    pointKind = "staged" =>
        LET confidenceTimesAge ==
                IF matchesCount > pointStagedAgeConfidence THEN pointStagedAgeConfidence
                ELSE IF matchesCount < -pointStagedAgeConfidence THEN -pointStagedAgeConfidence
                ELSE matchesCount
            add == Staged_Point_should_add_to_local_map(matchesCount)
            remove == Staged_Point_should_remove_from_staged(matchesCount)
        IN  /\ add <=> (confidenceTimesAge * pointMinimumConfidenceDenominator
                            > pointMinimumConfidenceNumerator * pointStagedAgeConfidence)
            /\ remove <=> (confidenceTimesAge <= 0)
            /\ ~(add /\ remove)

C9_Witness ==
    /\ pointKind = "staged"
    /\ matchesCount = pointStagedAgeConfidence
    /\ Staged_Point_should_add_to_local_map(matchesCount)
    /\ ~Staged_Point_should_remove_from_staged(matchesCount)

\* C10: for a local map point, after any sequence of updates: the failed-tracking
\* counter is 0 after a matched update and grows by the removal count at each
\* unmatched update, so with removal counts of 1 it is the number of consecutive
\* unmatched updates; is_lost holds iff the counter is above
\* pointUnmatchedCountToLoose, so such a point is lost only after more than
\* pointUnmatchedCountToLoose consecutive unmatched updates.
C10_LostAfterUnmatchedRun ==
    pointKind = "local" =>
        /\ failTrackingCount = removedSum
        /\ unmatchedRun = 0 => failTrackingCount = 0
        /\ onlyUnitRemovals => failTrackingCount = unmatchedRun
        /\ Map_Point_is_lost(failTrackingCount) <=> (failTrackingCount > pointUnmatchedCountToLoose)
        /\ (onlyUnitRemovals /\ Map_Point_is_lost(failTrackingCount))
               => unmatchedRun > pointUnmatchedCountToLoose

C10_Witness ==
    /\ pointKind = "local" /\ onlyUnitRemovals
    /\ unmatchedRun = pointUnmatchedCountToLoose + 1
    /\ Map_Point_is_lost(failTrackingCount)

----------------------------------------------------------------------------
(* Properties of the feature identifiers *)

LocalKeepsStagedId ==
    \A f \in mapFeatures :
        (f.kind = "point" /\ f.stage = "local") => f.id = f.builtFrom

----------------------------------------------------------------------------
(* Properties of the tracking of an inverse-depth point *)

\* C12: track returns false when a covariance is invalid at its input, at the
\* output of the Kalman update or of the conversion back to inverse depth, and
\* whenever it returns false the coordinates, the covariance and the descriptor
\* of the point are the ones it had before the call.
C12_FailedTrackLeavesPointUnchanged ==
    trackCall.made =>
        /\ (\/ ~is_covariance_valid(trackCall.oracle.covariance)
            \/ ~is_covariance_valid(trackCall.oracle.newCovariance)
            \/ ~is_covariance_valid(trackCall.oracle.resCovariance)) => ~trackCall.ret
        /\ ~trackCall.ret => trackPoint = trackCall.before

----------------------------------------------------------------------------
(* Properties of the orientation histogram *)

\* C13: remove_point is idempotent: after a second call on the same planar cell
\* the bin counters and the bins of the cells are what they were after the
\* first call.
C13_RemoveTwiceIsRemoveOnce ==
    histLog.twice => (histH = histLog.once.H /\ histB = histLog.once.B)

\* The cells that were inserted in bin b and not removed since.
CellsLeftIn(b) == {i \in Cells : histLog.assigned[i] = b /\ i \notin histLog.removed}

\* C14: get_points_from_most_frequent_bin returns exactly the cells that are
\* in the densest bin and were not removed, the lowest bin among those of the
\* highest count, and nothing when every bin is empty.
C14_AnswerIsDensestBin ==
    histLog.asked =>
        LET filled == {b \in Bins : CellsLeftIn(b) # {}}
        IN  IF filled = {} THEN histLog.answer = {}
            ELSE \E b \in filled :
                    /\ \A other \in filled :
                          \/ Cardinality(CellsLeftIn(other)) < Cardinality(CellsLeftIn(b))
                          \/ (Cardinality(CellsLeftIn(other)) = Cardinality(CellsLeftIn(b))
                                /\ b <= other)
                    /\ histLog.answer = CellsLeftIn(b)

----------------------------------------------------------------------------
(* Properties of the primitive detection *)

\* C15: after find_primitives, the cells of the masks of the accepted planes,
\* the cells of the masks of the accepted cylinders and the cells still
\* unassigned are together at most as many as the cells of the grid.
C15_MasksAndUnassignedWithinGrid ==
    detPc = "done" =>
        SumOver([i \in DOMAIN detOutput.planes |-> Cardinality(detOutput.planes[i])],
                DOMAIN detOutput.planes)
        + SumOver([i \in DOMAIN detOutput.cylinders |-> Cardinality(detOutput.cylinders[i])],
                  DOMAIN detOutput.cylinders)
        + Cardinality(isUnassignedMask) <= totalCellCount

\* C16: find_primitives terminates: a pass of the seed loop that does not stop
\* the loop leaves the counter of the bin of its seed lower than it found it,
\* region_growing activates no cell twice, and the loop makes at most as many
\* such passes as the cloud has planar cells.
C16_SeedLoopTerminates ==
    /\ (passLog.made /\ ~passLog.stopped) => passLog.after < passLog.before
    /\ \A i, j \in DOMAIN passLog.activated :
          i # j => passLog.activated[i] # passLog.activated[j]
    /\ passLog.passes <= Cardinality({i \in GridCells : scene.cells[i] # "none"})

C16_Witness ==
    /\ detPc = "merge"
    /\ passLog.made
    /\ passLog.seedBin >= 0
    /\ passLog.passes >= 2
    /\ Len(passLog.activated) >= 1
    /\ passLog.after < passLog.before

----------------------------------------------------------------------------
\* C17: every subset picked in an iteration of the RANSAC loop scores at least 1
\* (the sum over the kinds of the picked count over the kind's minimum for an
\* optimisation), has for each kind a count within the least and the most of
\* get_min_max_number_of_features and within the matches at hand, and holds no
\* 2D inverse-depth point; get_random_subset does not throw.
C17_SelectionWithinBoundsAndEnough ==
    subsetSelection.made =>
        LET sel == subsetSelection.selection
            mm == subsetSelection.minMax
        IN  /\ featureScoreOfAllKinds(sel) >= ScoreOne
            /\ \A i \in 1..Len(FeatureKinds) :
                    LET kind == FeatureKinds[i]
                    IN  /\ mm[kind].min <= mm[kind].max
                        /\ mm[kind].min <= sel[kind]
                        /\ sel[kind] <= mm[kind].max
                        /\ sel[kind] <= matchedFeatures[kind]
            /\ sel.points2D = 0
            /\ subsetSelection.sampled = sel
            /\ subsetSelection.subsetScore >= ScoreOne
            /\ rpc # "terminated"

\* A subset of planes and points was picked while a 2D point was at hand, with more
\* points than the least.
C17_Witness ==
    /\ subsetSelection.made
    /\ matchedFeatures.points2D >= 1
    /\ subsetSelection.selection.planes >= 1
    /\ subsetSelection.selection.points > subsetSelection.minMax.points.min

----------------------------------------------------------------------------
\* C18: for every candidate pose that was scored, each point match and each plane
\* match is either an inlier (its distance was computed and is strictly below the
\* threshold of its kind) or an outlier (otherwise, a throwing distance included),
\* never both, so that inliers and outliers together are the matches of the kind;
\* the score is the sum of min(distance, threshold), a throwing match counting for
\* its threshold, and is at most the maximum fitting score.
C18_ScoringPartitionsAndBounds ==
    \A k \in 1..Len(candidateLog) :
        LET e == candidateLog[k]
            points == 1..matchedFeatures.points
            planes == 1..matchedFeatures.planes
            cost(kind, threshold, i) ==
                IF ResidualThrows(e.pose, kind, i) THEN threshold
                ELSE Min(Residual(e.pose, kind, i), threshold)
        IN  e.ok =>
            /\ e.sets.points.inliers \cap e.sets.points.outliers = {}
            /\ e.sets.points.inliers \cup e.sets.points.outliers = points
            /\ e.sets.planes.inliers \cap e.sets.planes.outliers = {}
            /\ e.sets.planes.inliers \cup e.sets.planes.outliers = planes
            /\ \A i \in points : i \in e.sets.points.inliers <=>
                    /\ ~ResidualThrows(e.pose, "point", i)
                    /\ Residual(e.pose, "point", i) < pointMaxRetroprojectionError
            /\ \A i \in planes : i \in e.sets.planes.inliers <=>
                    /\ ~ResidualThrows(e.pose, "plane", i)
                    /\ Residual(e.pose, "plane", i) < planeMaxRetroprojectionError
            /\ e.score = SumOver([i \in points |-> cost("point", pointMaxRetroprojectionError, i)],
                                 points)
                          + SumOver([i \in planes |-> cost("plane", planeMaxRetroprojectionError, i)],
                                    planes)
            /\ e.score <= maxFittingScore(matchedFeatures)

\* Two candidates were scored: one with a throwing match and a distance above the
\* threshold, one with an outlier at the threshold next to inliers.
C18_Witness ==
    /\ matchedFeatures.points >= 2
    /\ matchedFeatures.planes >= 2
    /\ \E k \in 1..Len(candidateLog) : candidateLog[k].ok /\ candidateLog[k].pose = "p4"
    /\ \E k \in 1..Len(candidateLog) :
            /\ candidateLog[k].ok
            /\ candidateLog[k].sets.points.outliers # {}
            /\ candidateLog[k].sets.points.inliers # {}

----------------------------------------------------------------------------
\* The converged candidates of the loop so far, and the ones among them that scored
\* strictly below the maximum fitting score.
ConvergedCandidates == {k \in 1..Len(candidateLog) : candidateLog[k].ok}
CandidatesBelowMax ==
    {k \in ConvergedCandidates : candidateLog[k].score < maxFittingScore(matchedFeatures)}

\* compute_pose_with_ransac returns true only with a retained candidate that scored
\* strictly below the maximum fitting score, whose inliers score at least 1, after
\* a final optimisation that converged.
ReturnsTrueOnlyFromGoodCandidate ==
    ransacRet =>
        /\ \E k \in CandidatesBelowMax :
                /\ bestPose = candidateLog[k].pose
                /\ featureSets = candidateLog[k].sets
        /\ inlierScoreOf(featureSets) >= ScoreOne
        /\ finalLm = "ok"

\* C19 as stated: in the loop minScore never goes up (it is at most the maximum
\* fitting score and at most the score of every converged candidate seen), and as
\* soon as a candidate converged the retained best pose and feature sets are those
\* of a converged candidate with the lowest score seen so far; true is returned
\* only from a candidate below the maximum fitting score with an inlier score of at
\* least 1 and a converged final optimisation.
C19_BestIsLowestConverged ==
    /\ rpc \in {"loop", "final"} =>
        /\ minScore <= maxFittingScore(matchedFeatures)
        /\ \A k \in ConvergedCandidates : minScore <= candidateLog[k].score
        /\ ConvergedCandidates # {} =>
            \E k \in ConvergedCandidates :
                /\ \A j \in ConvergedCandidates : candidateLog[k].score <= candidateLog[j].score
                /\ bestPose = candidateLog[k].pose
                /\ featureSets = candidateLog[k].sets
    /\ ReturnsTrueOnlyFromGoodCandidate

\* C19, amended: only the converged candidates that scored strictly below the
\* maximum fitting score count.  With none of them minScore is the maximum fitting
\* score, the best pose is the pose of the caller and the feature sets are empty;
\* otherwise minScore, the best pose and the feature sets are those of the first
\* of them that reached the lowest score.
C19_BestIsFirstLowestBelowMax ==
    /\ rpc \in {"loop", "final"} =>
        /\ minScore <= maxFittingScore(matchedFeatures)
        /\ \A k \in ConvergedCandidates : minScore <= candidateLog[k].score
        /\ IF CandidatesBelowMax = {}
           THEN /\ minScore = maxFittingScore(matchedFeatures)
                /\ bestPose = callerPose.p
                /\ featureSets = EmptySets
           ELSE \E k \in CandidatesBelowMax :
                /\ \A j \in CandidatesBelowMax :
                        \/ candidateLog[k].score < candidateLog[j].score
                        \/ candidateLog[k].score = candidateLog[j].score /\ k <= j
                /\ minScore = candidateLog[k].score
                /\ bestPose = candidateLog[k].pose
                /\ featureSets = candidateLog[k].sets
    /\ ReturnsTrueOnlyFromGoodCandidate

\* true was returned after two converged candidates, the second replacing the first.
C19_Witness ==
    /\ ransacRet
    /\ Len(candidateLog) = 2
    /\ ConvergedCandidates = {1, 2}
    /\ candidateLog[2].score < candidateLog[1].score
    /\ bestPose = candidateLog[2].pose

----------------------------------------------------------------------------
\* C20: a call of compute_pose_variance with N > 0 iterations of which fewer than
\* half gave a valid pose returns false, and so does a call with N = 0.
C20_FailsBelowHalfOfIterations ==
    varianceCall.made =>
        /\ varianceCall.iterations = 0 => ~varianceCall.ret
        /\ (varianceCall.iterations > 0 /\ 2 * varianceCall.poses < varianceCall.iterations)
               => ~varianceCall.ret

----------------------------------------------------------------------------
\* C21: in the parallel runs a task reads and writes medium and appends to poses
\* only while it holds mut; whenever mut is free medium is the sum of poses and
\* poses holds the vector of each successful task that left the block exactly once
\* and nothing of a failed task; after the join the size of poses is the number of
\* successful tasks and medium is the sum of poses.
C21_MergeUnderMutexLosesNothing ==
    LET occurrences(t) == Cardinality({k \in 1..Len(mcPoses) : mcPoses[k] = pose6dof(t)})
    IN  /\ \A t \in Tasks :
            /\ taskPc[t] \in {"read", "write", "append", "unlock"} => mcMutex = t
            /\ taskOutcome[t] # "ok" => occurrences(t) = 0
            /\ taskPc[t] = "done" /\ taskOutcome[t] = "ok" => occurrences(t) = 1
            /\ occurrences(t) <= 1
        /\ mcMutex = NoTask => mcMedium = SumOver(mcPoses, 1..Len(mcPoses))
        /\ mcStage = "joined" =>
            /\ Len(mcPoses) = Cardinality({t \in Tasks : taskOutcome[t] = "ok"})
            /\ mcMedium = SumOver(mcPoses, 1..Len(mcPoses))

\* After the join of three tasks: one failed, and the two others merged in the
\* reverse order of their numbers.
C21_Witness ==
    /\ mcStage = "joined"
    /\ mcIterations = MaxTasks
    /\ \E t \in Tasks : taskOutcome[t] = "failed"
    /\ Len(mcPoses) >= 2
    /\ mcPoses[1] > mcPoses[2]

----------------------------------------------------------------------------
\* C22: find_feature_matches of a frame begins only when the keypoint, the plane
\* and the line task of the frame are all over, and at no point of any interleaving
\* has a task written what another task read or wrote.
C22_MatchingAfterJoinAndTasksDisjoint ==
    /\ frameStage = "matching" =>
        /\ matchingStartLog = Handlers
        /\ \A h \in Handlers : handlerPos[h] = Len(HandlerBody(h))
    /\ \A h1 \in Handlers : \A h2 \in Handlers \ {h1} :
        handlerWrites[h1] \cap (handlerReads[h2] \cup handlerWrites[h2]) = {}

\* Matching began after the keypoint and the plane task both wrote their detector
\* and both read the depth image.
C22_Witness ==
    /\ frameStage = "matching"
    /\ "_pointDetector" \in handlerWrites["kpHandler"]
    /\ "_primitiveDetector" \in handlerWrites["planeHandler"]
    /\ "depthImage" \in handlerReads["kpHandler"] \cap handlerReads["planeHandler"]


---------------------------------------------------------------------------------
\* Region growing: which cells a growth merges.

\* The cells next to a cell in the grid of horizontalCellsCount columns and
\* verticalCellsCount rows.
GridNeighbours(i) ==
    { j \in GridCells :
        \/ j \div horizontalCellsCount = i \div horizontalCellsCount
           /\ (j = i + 1 \/ i = j + 1)
        \/ j = i + horizontalCellsCount
        \/ i = j + horizontalCellsCount }

GrowthActivated == Range(growResult.activated)

\* A visit found its cell already activated by an earlier visit.
ActivatedBefore(k) ==
    \E j \in 1 .. k - 1 :
        /\ growResult.visits[j].index = growResult.visits[k].index
        /\ growResult.visits[j].merged

\* C23 (as stated): during a growth, a cell next to an activated cell is merged
\* exactly when it is planar and unassigned, the cosine between the seed's normal
\* and its normal is above minCosAngleForMerge, and the squared distance of its
\* centroid to the seed's plane is below its tolerance.
C23_MergedIffCloseToSeedPlane ==
    \A c \in GrowthActivated : \A i \in GridNeighbours(c) \ {growSeed} :
        i \in GrowthActivated
            <=> /\ growGrid[i].unassigned
                /\ passes_merge_tests_strictly(growGrid[growSeed], growGrid[i])

\* C23 (amended): every cell that a growth visits is merged exactly when it is
\* planar and unassigned, not yet activated, and close to the plane of the
\* activated cell it is visited from (the seed's own plane for the seed): the
\* cosine of the two normals is not below minCosAngleForMerge and the squared
\* distance of its centroid to that plane is not above its tolerance.
C23_MergedIffCloseToCallerPlane ==
    \A k \in 1 .. Len(growResult.visits) :
        growResult.visits[k].merged
            <=> /\ growGrid[growResult.visits[k].index].unassigned
                /\ ~ ActivatedBefore(k)
                /\ ~ (\/ normalDot(growGrid[growResult.visits[k].caller],
                                   growGrid[growResult.visits[k].index])
                            < minCosAngleForMerge
                      \/ squaredDistance(growGrid[growResult.visits[k].caller],
                                         growGrid[growResult.visits[k].index])
                            > cellDistanceTol)

\* A growth that merged a cell two steps from the seed's normal through a cell
\* between them, merged a cell at the bound of the cosine, and refused a cell
\* that was unassigned and not yet activated.
C23_Witness ==
    /\ \E i \in GrowthActivated :
           normalDot(growGrid[growSeed], growGrid[i]) < minCosAngleForMerge
    /\ \E k \in 1 .. Len(growResult.visits) :
           /\ growResult.visits[k].merged
           /\ normalDot(growGrid[growResult.visits[k].caller],
                        growGrid[growResult.visits[k].index]) = minCosAngleForMerge
    /\ \E k \in 1 .. Len(growResult.visits) :
           /\ ~ growResult.visits[k].merged
           /\ growGrid[growResult.visits[k].index].unassigned
           /\ ~ ActivatedBefore(k)


\* C24: region growing is a 4-neighbour flood on the grid of cells: every
\* activated cell other than the seed is next to another activated cell (left,
\* right, up or down), and the last cell of a row is never taken for a neighbour
\* of the first cell of the next row.
C24_FloodStaysOnGridNeighbours ==
    /\ \A i \in GrowthActivated \ {growSeed} :
           GridNeighbours(i) \cap GrowthActivated # {}
    /\ \A k \in 1 .. Len(growResult.visits) :
           \/ growResult.visits[k].index = growResult.visits[k].caller
           \/ growResult.visits[k].index \in GridNeighbours(growResult.visits[k].caller)

\* C25: for a fixed grid and seed, the growth activates the same set of cells
\* whatever the order in which the four neighbours of a cell are visited.
C25_ActivationSetIsOrderIndependent ==
    growStage = "grown" =>
        GrowthActivated = Range(grow_from_seed(growGrid, growSeed, CodeOrder).activated)


---------------------------------------------------------------------------------
\* merge_planes: which segments are merged, and where their moments go.

\* C26: in merge_planes, for each pair of connected segments (i, j) with i < j,
\* j is merged into i exactly when the cosine of their normals is above
\* minCosAngleForMerge and the squared distance of j's centroid to plane i is
\* below the square of maxMergeDist; a pair that fails is marked not connected.
C26_MergedIffWithinSquaredMergeDistance ==
    \A k \in 1 .. Len(mergeResult.tested) :
        /\ mergeResult.tested[k].merged
              <=> passes_plane_merge_tests_squared(
                      mergeSegments[mergeResult.tested[k].row + 1],
                      mergeSegments[mergeResult.tested[k].col + 1])
        /\ mergeResult.tested[k].merged
              => mergeResult.tested[k].planeId = mergeResult.tested[k].row
        /\ ~ mergeResult.tested[k].merged
              => ~ isPlanesConnectedMatrix(mergeResult.connected,
                                           mergeResult.tested[k].row,
                                           mergeResult.tested[k].col)

\* The planes that hold the moments of segment j.
PlanesHolding(j) ==
    { p \in 0 .. Len(mergeResult.moments) - 1 :
        \E k \in 1 .. Len(mergeResult.moments[p + 1]) :
            mergeResult.moments[p + 1][k] = j }

\* C27: after merge_planes, the label of every segment j is a root and is at
\* most j, and the moments of a segment that is not a root have been added to
\* exactly one plane, the root named by its label.
C27_LabelsAreRootsAndMomentsAddedOnce ==
    \A j \in 0 .. Len(mergeResult.labels) - 1 :
        /\ mergeResult.labels[mergeResult.labels[j + 1] + 1] = mergeResult.labels[j + 1]
        /\ mergeResult.labels[j + 1] <= j
        /\ mergeResult.labels[j + 1] # j
              => PlanesHolding(j) \ {j} = {mergeResult.labels[j + 1]}


---------------------------------------------------------------------------------
\* The histogram inside find_primitives.

\* The bin that init_histogram gave to a planar cell of the scene.
SceneBin(i) == binOf(IF scene.cells[i] = "b" THEN scene.angles.b ELSE scene.angles.a)

\* C28: at every point of find_primitives after the histogram is initialized,
\* each bin counter is the number of planar cells of that bin that have not been
\* removed, and so is never negative, over every sequence of seed growths, the
\* growths rejected for too few activated cells included.
C28_BinCountersCountUnremovedCells ==
    detPc \in {"grow", "merge", "done"} =>
        \A b \in Bins :
            /\ detHistogram.H[b] =
                   Cardinality({i \in isUnassignedMask :
                                   scene.cells[i] # "none" /\ SceneBin(i) = b})
            /\ detHistogram.H[b] >= 0


---------------------------------------------------------------------------------
\* Adding the detected features on a frame without a pose.

\* The last call of compute_new_pose found no valid optimized pose.
FrameWithoutPose == pc = "ready" /\ out.outcome \in {"first", "noPose"}

\* The test of that frame: the flag as it was when the frame began, and the
\* position covariance of the predicted pose.
AddTestAtCall ==
    out.lostAtCall /\ is_covariance_valid(get_position_variance(out.poseAtCall))

\* C29: on a frame without a valid optimized pose, the detected features are
\* added to the local map exactly when isTrackingLost was true at the start of
\* the frame and the position covariance of the predicted pose is valid; the
\* frame whose failure sets the flag adds nothing.
C29_FeaturesAddedIffLostAtFrameStart ==
    FrameWithoutPose =>
        /\ out.staged = IF AddTestAtCall THEN out.detected.valid ELSE 0
        /\ (isTrackingLost /\ ~ out.lostAtCall) => out.staged = 0

\* The frame after the one that set the flag: its features were added.
C29_Witness ==
    /\ FrameWithoutPose /\ out.outcome = "noPose"
    /\ consecutiveFailed = failedTrackingLimit + 2
    /\ out.lostAtCall /\ out.detected.valid > 0
    /\ out.staged = out.detected.valid

\* The frame that set the flag: its features were not added.
C29_WitnessFlagSet ==
    /\ FrameWithoutPose /\ out.outcome = "noPose"
    /\ isTrackingLost /\ ~ out.lostAtCall
    /\ out.detected.valid > 0 /\ out.staged = 0


---------------------------------------------------------------------------------
\* Matching a 2D point of the map with the detected keypoints.

\* The keypoints associated to the point in the last call: the one with its
\* tracking id, or failing that those found by the search around its projection.
AssociatedKeypoints ==
    IF findCall.in.trackingIndex # INVALID_MATCH_INDEX THEN {findCall.in.trackingIndex}
    ELSE IF findCall.in.projects
    THEN get_match_indexes(findCall.in.places, findCall.in.useAdvancedSearch)
    ELSE {}

\* C30: when find_matches of a 2D point is called with shouldAddToMatches and a
\* detected keypoint is associated to the point, by its tracking id or failing
\* that by the search, the point emits one match per associated keypoint into the
\* container and returns the indexes of those keypoints.
C30_EmitsAndReturnsAssociatedKeypoints ==
    (findCall.called = "find_matches" /\ findCall.in.shouldAddToMatches
        /\ AssociatedKeypoints # {}) =>
            /\ findCall.out.matches = AssociatedKeypoints
            /\ findCall.out.ret = AssociatedKeypoints

====
